---- MODULE Spec2Model ----
(***************************************************************************)
(* A model of the rufi aggregate-computing virtual machine: the alignment  *)
(* stack, paths, the typed state store, inbound/outbound messages, the     *)
(* JSON serializer and the primitives neighboring, repeat, branch, share.  *)
(*                                                                         *)
(* Strings and byte vectors are sequences of lexemes (TLA+ strings), so    *)
(* that formatting, joining, splitting and parsing are computed and not    *)
(* assumed.  Maps (BTreeMap) are functions with a finite domain.           *)
(***************************************************************************)
EXTENDS Integers, Sequences, FiniteSets, TLC

VARIABLES vm, prog, obs, net

vars == <<vm, prog, obs, net>>

----------------------------------------------------------------------------
(* Bounds of the model and constants of the program.                       *)

\* primitive invocations (aligns) a device performs, over all its rounds
MaxCalls == 3
\* nesting depth of callbacks (repeat / branch / share frames)
MaxDepth == 2
\* rounds a device runs
MaxRounds == 2
\* primitive invocations of a device where two devices run
MaxDuoCalls == 2

\* device identifiers: LocalId runs the program, the others are neighbors
LocalId == 0
Neighbors == {1, 2}
Devices == {LocalId} \cup Neighbors

----------------------------------------------------------------------------
(* Maps.                                                                   *)

EmptyMap == << >>

MapPut(m, k, v) == [x \in (DOMAIN m) \cup {k} |-> IF x = k THEN v ELSE m[x]]

----------------------------------------------------------------------------
(* Strings: sequences of lexemes.                                          *)

DigitChars == <<"0", "1", "2", "3", "4", "5", "6", "7", "8", "9">>

IsDigit(c) == \E i \in 1..10 : DigitChars[i] = c

DigitValue(c) == (CHOOSE i \in 1..10 : DigitChars[i] = c) - 1

\* i32 Display of a number that is not negative: the decimal digits
RECURSIVE I32ToString(_)
I32ToString(n) ==
    IF n < 10 THEN <<DigitChars[n + 1]>>
    ELSE I32ToString(n \div 10) \o <<DigitChars[(n % 10) + 1]>>

(* u32: two 16-bit limbs, as the model checker's integers are narrower     *)
(* than 32 bits unsigned.                                                  *)
Limb == 256 * 256

U32(n) == [hi |-> n \div Limb, lo |-> n % Limb]

\* u32::MAX = 4294967295, the value at which Saturating<u32> clamps
U32_MAX == [hi |-> Limb - 1, lo |-> Limb - 1]

\* Saturating<u32> addition
SaturatingAdd(a, b) ==
    LET lo == a.lo + b.lo
        hi == a.hi + b.hi + (lo \div Limb)
    IN IF hi >= Limb THEN U32_MAX ELSE [hi |-> hi, lo |-> lo % Limb]

\* quotient and remainder of a u32 by ten
U32DivMod10(c) ==
    LET t == (c.hi % 10) * Limb + c.lo
    IN [q |-> [hi |-> c.hi \div 10, lo |-> t \div 10], r |-> t % 10]

\* u32 Display: the decimal digits, most significant first
RECURSIVE U32ToString(_)
U32ToString(c) ==
    IF c.hi = 0 /\ c.lo < 10 THEN <<DigitChars[c.lo + 1]>>
    ELSE U32ToString(U32DivMod10(c).q) \o <<DigitChars[U32DivMod10(c).r + 1]>>

RECURSIVE ParseDigits(_)
ParseDigits(s) ==
    IF Len(s) = 0 THEN 0
    ELSE 10 * ParseDigits(SubSeq(s, 1, Len(s) - 1)) + DigitValue(s[Len(s)])

\* bool Display
BoolToString(b) == IF b THEN <<"true">> ELSE <<"false">>

\* [String]::join(sep)
RECURSIVE Join(_, _)
Join(tokens, sep) ==
    IF Len(tokens) = 0 THEN << >>
    ELSE IF Len(tokens) = 1 THEN tokens[1]
    ELSE tokens[1] \o <<sep>> \o Join(Tail(tokens), sep)

\* str::split(sep): always at least one piece, the pieces hold no sep
RECURSIVE Split(_, _)
Split(s, sep) ==
    IF \A i \in 1..Len(s) : s[i] # sep THEN <<s>>
    ELSE LET i == CHOOSE j \in 1..Len(s) :
                     s[j] = sep /\ \A k \in 1..(j - 1) : s[k] # sep
         IN <<SubSeq(s, 1, i - 1)>> \o Split(SubSeq(s, i + 1, Len(s)), sep)

----------------------------------------------------------------------------
(* Path and InvocationCoordinate.                                          *)

InvocationCoordinate_new(counter, token) == [counter |-> counter, token |-> token]

\* Display for InvocationCoordinate: "{token}:{counter}"
InvocationCoordinate_to_string(c) == c.token \o <<":">> \o U32ToString(c.counter)

\* Path::new: every element is turned into its string
Path_new(tokens) == [i \in 1..Len(tokens) |-> InvocationCoordinate_to_string(tokens[i])]

\* Display for Path: tokens.join("/")
Path_to_string(p) == Join(p, "/")

\* From<&str> that takes the whole string for one token
Path_from_unsplit(value) == <<value>>

\* From<&str> for Path: value.split('/')
Path_from(value) == Split(value, "/")

----------------------------------------------------------------------------
(* AlignmentStack.                                                         *)

AlignmentStack_new == [stack |-> << >>, trace |-> EmptyMap]

\* current_path that gives the innermost coordinate alone
AlignmentStack_current_path_innermost(as) ==
    IF Len(as.stack) = 0 THEN << >> ELSE <<as.stack[Len(as.stack)]>>

AlignmentStack_current_path(as) == as.stack

\* align with a counter that is not advanced: every sibling gets the first counter
AlignmentStack_align_no_increment(as, token) ==
    LET current_path == Path_new(as.stack)
        current_counter ==
            IF current_path \in DOMAIN as.trace THEN as.trace[current_path] ELSE U32(0)
    IN [stack |-> Append(as.stack, InvocationCoordinate_new(current_counter, token)),
        trace |-> MapPut(as.trace, current_path, current_counter)]

\* align whose first counter is 1
AlignmentStack_align_from_one(as, token) ==
    LET current_path == Path_new(as.stack)
        current_counter ==
            IF current_path \in DOMAIN as.trace
            THEN SaturatingAdd(as.trace[current_path], U32(1))
            ELSE U32(1)
    IN [stack |-> Append(as.stack, InvocationCoordinate_new(current_counter, token)),
        trace |-> MapPut(as.trace, current_path, current_counter)]

\* align with a counter that wraps around (u32 wrapping_add) where the code saturates
AlignmentStack_align_wrapping(as, token) ==
    LET current_path == Path_new(as.stack)
        current_counter ==
            IF current_path \in DOMAIN as.trace
            THEN (IF as.trace[current_path] = U32_MAX THEN U32(0)
                  ELSE SaturatingAdd(as.trace[current_path], U32(1)))
            ELSE U32(0)
    IN [stack |-> Append(as.stack, InvocationCoordinate_new(current_counter, token)),
        trace |-> MapPut(as.trace, current_path, current_counter)]

\* align with one counter for each token under a parent path
AlignmentStack_align_per_token(as, token) ==
    LET key == Append(Path_new(as.stack), token)
        current_counter ==
            IF key \in DOMAIN as.trace
            THEN SaturatingAdd(as.trace[key], U32(1))
            ELSE U32(0)
    IN [stack |-> Append(as.stack, InvocationCoordinate_new(current_counter, token)),
        trace |-> MapPut(as.trace, key, current_counter)]

AlignmentStack_align(as, token) ==
    LET current_path == Path_new(as.stack)
        current_counter ==
            IF current_path \in DOMAIN as.trace
            THEN SaturatingAdd(as.trace[current_path], U32(1))
            ELSE U32(0)
        invocation_coordinate == InvocationCoordinate_new(current_counter, token)
    IN [stack |-> Append(as.stack, invocation_coordinate),
        trace |-> MapPut(as.trace, current_path, current_counter)]

\* unalign that also forgets the counters
AlignmentStack_unalign_clears_trace(as) ==
    [stack |-> IF Len(as.stack) = 0 THEN << >>
               ELSE SubSeq(as.stack, 1, Len(as.stack) - 1),
     trace |-> EmptyMap]

\* VecDeque::pop_back: nothing happens on an empty stack
AlignmentStack_unalign(as) ==
    [as EXCEPT !.stack = IF Len(as.stack) = 0 THEN << >>
                         ELSE SubSeq(as.stack, 1, Len(as.stack) - 1)]

----------------------------------------------------------------------------
(* Values.  A value carries its Rust type (what TypeId / downcast_ref see) *)
(* and a payload.  A String value n is the string of the decimal digits of *)
(* n.  NoSer is a type whose Serialize implementation reports an error and *)
(* whose Deserialize implementation reads a number.                        *)

TyI32 == "i32"
TyString == "String"
TyNoSer == "NoSer"
Types == {TyI32, TyString, TyNoSer}

Val(ty, n) == [ty |-> ty, v |-> n]
NoValue == [ty |-> "none", v |-> 0]

Values == {Val(TyI32, 0), Val(TyI32, 1), Val(TyString, 0), Val(TyNoSer, 0)}
ValuesOf(ty) == {x \in Values : x.ty = ty}

\* the arguments the modelled programs pass to neighboring, repeat and share,
\* and the results of their branch callbacks
NeighboringArgs == {Val(TyI32, 0), Val(TyNoSer, 0)}
RepeatArgs == {Val(TyI32, 0), Val(TyString, 0)}
ShareArgs == {Val(TyI32, 0), Val(TyNoSer, 0)}
Results == {Val(TyI32, 0), Val(TyI32, 1)}
\* what an evolution callback returns: a value of the type of its argument,
\* for i32 another one than the initial value
EvolutionResults == {Val(TyI32, 1), Val(TyString, 0), Val(TyNoSer, 0)}

----------------------------------------------------------------------------
(* Serializer: the JSON serializer (serde_json::to_vec / from_slice).      *)

Quote == "\""

\* a JSON number without sign, fraction or leading zero
IsJsonNumber(bytes) ==
    /\ Len(bytes) >= 1
    /\ \A i \in 1..Len(bytes) : IsDigit(bytes[i])
    /\ (Len(bytes) > 1 => bytes[1] # "0")

\* a JSON string whose content is free of quotes
IsJsonString(bytes) ==
    /\ Len(bytes) >= 2
    /\ bytes[1] = Quote
    /\ bytes[Len(bytes)] = Quote
    /\ \A i \in 2..(Len(bytes) - 1) : bytes[i] # Quote

Serializer_serialize(value) ==
    IF value.ty = TyI32 THEN [ok |-> TRUE, bytes |-> I32ToString(value.v)]
    ELSE IF value.ty = TyString
    THEN [ok |-> TRUE, bytes |-> <<Quote>> \o I32ToString(value.v) \o <<Quote>>]
    ELSE [ok |-> FALSE, bytes |-> << >>]

Serializer_deserialize(ty, bytes) ==
    IF ty \in {TyI32, TyNoSer} /\ IsJsonNumber(bytes)
    THEN [ok |-> TRUE, value |-> Val(ty, ParseDigits(bytes))]
    ELSE IF /\ ty = TyString
            /\ IsJsonString(bytes)
            /\ IsJsonNumber(SubSeq(bytes, 2, Len(bytes) - 1))
    THEN [ok |-> TRUE, value |-> Val(TyString, ParseDigits(SubSeq(bytes, 2, Len(bytes) - 1)))]
    ELSE [ok |-> FALSE, value |-> NoValue]

----------------------------------------------------------------------------
(* State: BTreeMap<Path, Box<dyn Any>>.                                    *)

State_new == EmptyMap

\* insert that leaves an entry that is already there as it is
State_insert_keeps_old(state, path, value) ==
    IF path \in DOMAIN state THEN state ELSE MapPut(state, path, value)

State_insert(state, path, value) == MapPut(state, path, value)

\* what the panic message of State::get names: the path and type_name::<V>()
NoMessage == [path |-> << >>, expected |-> "none"]

\* get that takes an entry of another type for a missing one
State_get_mismatch_as_absent(state, ty, path) ==
    IF path \in DOMAIN state /\ state[path].ty = ty
    THEN [tag |-> "Some", value |-> state[path], message |-> NoMessage]
    ELSE [tag |-> "None", value |-> NoValue, message |-> NoMessage]

\* tag "None", "Some" or "Panic" (the type-mismatch panic of downcast_ref)
State_get(state, ty, path) ==
    IF path \notin DOMAIN state
    THEN [tag |-> "None", value |-> NoValue, message |-> NoMessage]
    ELSE IF state[path].ty = ty
    THEN [tag |-> "Some", value |-> state[path], message |-> NoMessage]
    ELSE [tag |-> "Panic", value |-> NoValue,
          message |-> [path |-> path, expected |-> ty]]

----------------------------------------------------------------------------
(* ValueTree, InboundMessage, OutboundMessage, Field.                      *)

ValueTree_empty == EmptyMap

ValueTree_contains_key(tree, path) == path \in DOMAIN tree

\* Option<Vec<u8>>
ValueTree_get(tree, path) ==
    IF path \in DOMAIN tree THEN [some |-> TRUE, bytes |-> tree[path]]
    ELSE [some |-> FALSE, bytes |-> << >>]

InboundMessage_default == EmptyMap

\* get_at_path that matches a tree's entries on the last coordinate alone
InboundMessage_get_at_path_by_last_coordinate(inbound, path) ==
    LET same(q) == Len(q) >= 1 /\ q[Len(q)] = path[Len(path)]
        ids == {id \in DOMAIN inbound : \E q \in DOMAIN inbound[id] : same(q)}
    IN [id \in ids |-> inbound[id][CHOOSE q \in DOMAIN inbound[id] : same(q)]]

InboundMessage_get_at_path(inbound, path) ==
    LET ids == {id \in DOMAIN inbound : ValueTree_get(inbound[id], path).some}
    IN [id \in ids |-> ValueTree_get(inbound[id], path).bytes]

InboundMessage_devices_at_path(inbound, path) ==
    {id \in DOMAIN inbound : ValueTree_contains_key(inbound[id], path)}

OutboundMessage_empty(sender) == [sender |-> sender, underlying |-> EmptyMap]

\* append keyed by the last coordinate of the path alone
OutboundMessage_append_last_coordinate(outbound, path, value) ==
    [outbound EXCEPT !.underlying = MapPut(@, path[Len(path)], value)]

\* append that drops the entries appended before
OutboundMessage_append_alone(outbound, path, value) ==
    [outbound EXCEPT !.underlying = MapPut(EmptyMap, Path_to_string(path), value)]

OutboundMessage_append(outbound, path, value) ==
    [outbound EXCEPT !.underlying = MapPut(@, Path_to_string(path), value)]

OutboundMessage_at(outbound, path) ==
    IF Path_to_string(path) \in DOMAIN outbound.underlying
    THEN [some |-> TRUE, bytes |-> outbound.underlying[Path_to_string(path)]]
    ELSE [some |-> FALSE, bytes |-> << >>]

Field_new(default, overrides) == [default |-> default, overrides |-> overrides]

Field_local(field) == field.default

NoField == Field_new(NoValue, EmptyMap)

\* the functions a program passes to aligned_map: |a, b| a + b, |a, b| a * b
\* and |a, _| a.clone()
Transforms == {"add", "mul", "first"}

Transform(transform, x, y) ==
    IF transform = "add" THEN Val(x.ty, x.v + y.v)
    ELSE IF transform = "mul" THEN Val(x.ty, x.v * y.v)
    ELSE x

\* aligned_map that keeps every key of self, with other's default where other
\* has no entry
Field_aligned_map_keeps_self_keys(self, other, transform) ==
    Field_new(Transform(transform, self.default, other.default),
              [k \in DOMAIN self.overrides |->
                  Transform(transform, self.overrides[k],
                            IF k \in DOMAIN other.overrides THEN other.overrides[k]
                            ELSE other.default)])

\* the entries of self.overrides whose key other.overrides has, transformed
Field_aligned_map(self, other, transform) ==
    Field_new(Transform(transform, self.default, other.default),
              [k \in {x \in DOMAIN self.overrides : x \in DOMAIN other.overrides} |->
                  Transform(transform, self.overrides[k], other.overrides[k])])

----------------------------------------------------------------------------
(* VM.  Every primitive is a pure operator on the VM record.  Besides the  *)
(* new VM it returns what the caller sees (result) and, for the ghost      *)
(* variables, the path it was aligned on and the alignment calls it made.  *)
(* repeat, branch and share run a callback that re-enters the VM, so each  *)
(* is split in two: what precedes the callback and what follows it.        *)

Str(lexeme) == <<lexeme>>

CallAlign(token) == [op |-> "align", token |-> token]
CallUnalign == [op |-> "unalign", token |-> << >>]

VM_new(local_id) ==
    [local_id |-> local_id,
     state |-> State_new,
     inbound |-> InboundMessage_default,
     outbound |-> OutboundMessage_empty(local_id),
     alignment_stack |-> AlignmentStack_new]

\* prepare_new_round that keeps the alignment stack of the round before
VM_prepare_new_round_keeps_stack(v, inbound) ==
    [v EXCEPT !.outbound = OutboundMessage_empty(v.local_id),
              !.inbound = inbound]

\* prepare_new_round that starts the round from an empty state
VM_prepare_new_round_clears_state(v, inbound) ==
    [v EXCEPT !.outbound = OutboundMessage_empty(v.local_id),
              !.alignment_stack = AlignmentStack_new,
              !.inbound = inbound,
              !.state = State_new]

\* prepare_new_round that goes on with the outbound message of the round before
VM_prepare_new_round_keeps_outbound(v, inbound) ==
    [v EXCEPT !.alignment_stack = AlignmentStack_new,
              !.inbound = inbound]

VM_prepare_new_round(v, inbound) ==
    [v EXCEPT !.outbound = OutboundMessage_empty(v.local_id),
              !.alignment_stack = AlignmentStack_new,
              !.inbound = inbound]

\* get_at_path that leaves out the neighbors whose bytes do not decode
VM_get_at_path_skips_undecodable(v, ty, path) ==
    LET elems == InboundMessage_get_at_path(v.inbound, path)
        good == {id \in DOMAIN elems : Serializer_deserialize(ty, elems[id]).ok}
    IN [ok |-> TRUE,
        map |-> [id \in good |-> Serializer_deserialize(ty, elems[id]).value]]

\* Err at the first neighbor whose bytes do not decode, else every decoded value
VM_get_at_path(v, ty, path) ==
    LET elems == InboundMessage_get_at_path(v.inbound, path)
    IN IF \E id \in DOMAIN elems : ~Serializer_deserialize(ty, elems[id]).ok
       THEN [ok |-> FALSE, map |-> EmptyMap]
       ELSE [ok |-> TRUE,
             map |-> [id \in DOMAIN elems |-> Serializer_deserialize(ty, elems[id]).value]]

\* neighboring that appends its value before it decodes the neighbors
VM_neighboring_appends_first(v, value) ==
    LET v1 == [v EXCEPT !.alignment_stack = AlignmentStack_align(@, Str("neighboring"))]
        path == Path_new(AlignmentStack_current_path(v1.alignment_stack))
        serialized_value == Serializer_serialize(value)
        v2 == IF serialized_value.ok
              THEN [v1 EXCEPT !.outbound = OutboundMessage_append(@, path, serialized_value.bytes)]
              ELSE v1
        neighboring_values == VM_get_at_path(v2, value.ty, path)
    IN IF ~neighboring_values.ok
       THEN [vm |-> v2, tag |-> "DeserializationError", field |-> NoField,
             path |-> path, calls |-> <<CallAlign(Str("neighboring"))>>]
       ELSE IF ~serialized_value.ok
       THEN [vm |-> [v2 EXCEPT !.alignment_stack = AlignmentStack_unalign(@)],
             tag |-> "SerializationError", field |-> NoField,
             path |-> path, calls |-> <<CallAlign(Str("neighboring")), CallUnalign>>]
       ELSE [vm |-> [v2 EXCEPT !.alignment_stack = AlignmentStack_unalign(@)],
             tag |-> "Ok", field |-> Field_new(value, neighboring_values.map),
             path |-> path, calls |-> <<CallAlign(Str("neighboring")), CallUnalign>>]

VM_neighboring(v, value) ==
    LET v1 == [v EXCEPT !.alignment_stack = AlignmentStack_align(@, Str("neighboring"))]
        path == Path_new(AlignmentStack_current_path(v1.alignment_stack))
        neighboring_values == VM_get_at_path(v1, value.ty, path)
        serialized_value == Serializer_serialize(value)
    IN IF ~neighboring_values.ok
       THEN \* the ? operator returns at once
            [vm |-> v1, tag |-> "DeserializationError", field |-> NoField,
             path |-> path, calls |-> <<CallAlign(Str("neighboring"))>>]
       ELSE IF ~serialized_value.ok
       THEN [vm |-> [v1 EXCEPT !.alignment_stack = AlignmentStack_unalign(@)],
             tag |-> "SerializationError", field |-> NoField,
             path |-> path, calls |-> <<CallAlign(Str("neighboring")), CallUnalign>>]
       ELSE [vm |-> [v1 EXCEPT
                       !.outbound = OutboundMessage_append(@, path, serialized_value.bytes),
                       !.alignment_stack = AlignmentStack_unalign(@)],
             tag |-> "Ok", field |-> Field_new(value, neighboring_values.map),
             path |-> path, calls |-> <<CallAlign(Str("neighboring")), CallUnalign>>]

\* repeat that takes a stored value of another type for a missing one
VM_repeat_enter_unchecked(v, initial) ==
    LET v1 == [v EXCEPT !.alignment_stack = AlignmentStack_align(@, Str("repeat"))]
        current_path == Path_new(AlignmentStack_current_path(v1.alignment_stack))
        got == State_get(v1.state, initial.ty, current_path)
    IN [vm |-> v1,
        tag |-> "Ok",
        previous_state |-> IF got.tag = "Some" THEN got.value ELSE initial,
        path |-> current_path, calls |-> <<CallAlign(Str("repeat"))>>]

\* repeat that starts from initial whatever the state holds
VM_repeat_enter_ignores_state(v, initial) ==
    LET v1 == [v EXCEPT !.alignment_stack = AlignmentStack_align(@, Str("repeat"))]
        current_path == Path_new(AlignmentStack_current_path(v1.alignment_stack))
    IN [vm |-> v1, tag |-> "Ok", previous_state |-> initial,
        path |-> current_path, calls |-> <<CallAlign(Str("repeat"))>>]

\* repeat up to the call of evolution(previous_state, self)
VM_repeat_enter(v, initial) ==
    LET v1 == [v EXCEPT !.alignment_stack = AlignmentStack_align(@, Str("repeat"))]
        current_path == Path_new(AlignmentStack_current_path(v1.alignment_stack))
        got == State_get(v1.state, initial.ty, current_path)
    IN [vm |-> v1,
        tag |-> IF got.tag = "Panic" THEN "Panic" ELSE "Ok",
        previous_state |-> IF got.tag = "Some" THEN got.value ELSE initial,
        path |-> current_path, calls |-> <<CallAlign(Str("repeat"))>>]

\* repeat that returns without unalign
VM_repeat_exit_without_unalign(v, current_path, updated_state) ==
    [vm |-> [v EXCEPT !.state = State_insert(@, current_path, updated_state)],
     tag |-> "Ok", value |-> updated_state, calls |-> << >>]

\* repeat that emits its result at its path, as share does
VM_repeat_exit_emits(v, current_path, updated_state) ==
    LET serialized_value == Serializer_serialize(updated_state)
    IN [vm |-> [v EXCEPT !.state = State_insert(@, current_path, updated_state),
                         !.outbound = IF serialized_value.ok
                                      THEN OutboundMessage_append(@, current_path,
                                                                  serialized_value.bytes)
                                      ELSE @,
                         !.alignment_stack = AlignmentStack_unalign(@)],
        tag |-> "Ok", value |-> updated_state, calls |-> <<CallUnalign>>]

\* repeat from the return of evolution
VM_repeat_exit(v, current_path, updated_state) ==
    [vm |-> [v EXCEPT !.state = State_insert(@, current_path, updated_state),
                      !.alignment_stack = AlignmentStack_unalign(@)],
     tag |-> "Ok", value |-> updated_state, calls |-> <<CallUnalign>>]

BranchToken(condition) == Str("branch[") \o BoolToString(condition) \o Str("]")

\* branch that runs the callback it should not
VM_branch_enter_swapped(v, condition) ==
    LET v1 == [v EXCEPT !.alignment_stack = AlignmentStack_align(@, BranchToken(condition))]
    IN [vm |-> v1,
        callee |-> IF condition THEN "el" ELSE "th",
        path |-> Path_new(AlignmentStack_current_path(v1.alignment_stack)),
        calls |-> <<CallAlign(BranchToken(condition))>>]

\* branch up to the call of th(self) or el(self)
VM_branch_enter(v, condition) ==
    LET v1 == [v EXCEPT !.alignment_stack = AlignmentStack_align(@, BranchToken(condition))]
    IN [vm |-> v1,
        callee |-> IF condition THEN "th" ELSE "el",
        path |-> Path_new(AlignmentStack_current_path(v1.alignment_stack)),
        calls |-> <<CallAlign(BranchToken(condition))>>]

\* branch from the return of the callback
VM_branch_exit(v, result) ==
    [vm |-> [v EXCEPT !.alignment_stack = AlignmentStack_unalign(@)],
     tag |-> "Ok", value |-> result, calls |-> <<CallUnalign>>]

\* share that stores the value it starts from before it decodes the neighbors
VM_share_enter_stores_first(v, initial) ==
    LET v1 == [v EXCEPT !.alignment_stack = AlignmentStack_align(@, Str("share"))]
        current_path == Path_new(AlignmentStack_current_path(v1.alignment_stack))
        got == State_get(v1.state, initial.ty, current_path)
        previous_state == IF got.tag = "Some" THEN got.value ELSE initial
        neighboring_values == VM_get_at_path(v1, initial.ty, current_path)
    IN [vm |-> IF got.tag = "Panic" THEN v1
               ELSE [v1 EXCEPT !.state = State_insert(@, current_path, previous_state)],
        tag |-> IF got.tag = "Panic" THEN "Panic"
                ELSE IF ~neighboring_values.ok THEN "DeserializationError"
                ELSE "Ok",
        field |-> IF got.tag # "Panic" /\ neighboring_values.ok
                  THEN Field_new(previous_state, neighboring_values.map)
                  ELSE NoField,
        path |-> current_path, calls |-> <<CallAlign(Str("share"))>>]

\* share up to the call of evolution(self, field)
VM_share_enter(v, initial) ==
    LET v1 == [v EXCEPT !.alignment_stack = AlignmentStack_align(@, Str("share"))]
        current_path == Path_new(AlignmentStack_current_path(v1.alignment_stack))
        got == State_get(v1.state, initial.ty, current_path)
        previous_state == IF got.tag = "Some" THEN got.value ELSE initial
        neighboring_values == VM_get_at_path(v1, initial.ty, current_path)
    IN [vm |-> v1,
        tag |-> IF got.tag = "Panic" THEN "Panic"
                ELSE IF ~neighboring_values.ok THEN "DeserializationError"
                ELSE "Ok",
        field |-> IF got.tag # "Panic" /\ neighboring_values.ok
                  THEN Field_new(previous_state, neighboring_values.map)
                  ELSE NoField,
        path |-> current_path, calls |-> <<CallAlign(Str("share"))>>]

\* share that emits its result and does not store it
VM_share_exit_without_insert(v, current_path, updated_state) ==
    LET serialized_value == Serializer_serialize(updated_state)
    IN IF ~serialized_value.ok
       THEN [vm |-> [v EXCEPT !.alignment_stack = AlignmentStack_unalign(@)],
             tag |-> "SerializationError", value |-> NoValue, calls |-> <<CallUnalign>>]
       ELSE [vm |-> [v EXCEPT
                       !.outbound = OutboundMessage_append(@, current_path, serialized_value.bytes),
                       !.alignment_stack = AlignmentStack_unalign(@)],
             tag |-> "Ok", value |-> updated_state, calls |-> <<CallUnalign>>]

\* share from the return of evolution
VM_share_exit(v, current_path, updated_state) ==
    LET v1 == [v EXCEPT !.state = State_insert(@, current_path, updated_state)]
        serialized_value == Serializer_serialize(updated_state)
    IN IF ~serialized_value.ok
       THEN [vm |-> [v1 EXCEPT !.alignment_stack = AlignmentStack_unalign(@)],
             tag |-> "SerializationError", value |-> NoValue, calls |-> <<CallUnalign>>]
       ELSE [vm |-> [v1 EXCEPT
                       !.outbound = OutboundMessage_append(@, current_path, serialized_value.bytes),
                       !.alignment_stack = AlignmentStack_unalign(@)],
             tag |-> "Ok", value |-> updated_state, calls |-> <<CallUnalign>>]

----------------------------------------------------------------------------
(* The inbound messages a network may hand to the VM.  The keys of a       *)
(* ValueTree are built as the tests build them, with Path::from.           *)

PStr_n0 == <<"neighboring", ":", "0">>
PStr_s0 == <<"share", ":", "0">>
PStr_bt_n0 == <<"branch[", "true", "]", ":", "0", "/", "neighboring", ":", "0">>
PStr_bf_n0 == <<"branch[", "false", "]", ":", "0", "/", "neighboring", ":", "0">>

Bytes_i1 == Serializer_serialize(Val(TyI32, 1)).bytes
Bytes_s0 == Serializer_serialize(Val(TyString, 0)).bytes

Tree(pstr, bytes) == MapPut(ValueTree_empty, Path_from(pstr), bytes)

PStr_s0_n0 == <<"share", ":", "0", "/", "neighboring", ":", "0">>

\* I_full: neighbor 1 with a number and neighbor 2 with a string at
\* neighboring:0; the local device and neighbor 1 with a number at share:0;
\* neighbor 2 with a string at share:0/neighboring:0; both neighbors with a
\* number inside branch[true], neighbor 2 alone inside branch[false]
I_full ==
    MapPut(MapPut(MapPut(InboundMessage_default,
        LocalId, Tree(PStr_s0, Bytes_i1)),
        1, MapPut(MapPut(Tree(PStr_n0, Bytes_i1), Path_from(PStr_s0), Bytes_i1),
                  Path_from(PStr_bt_n0), Bytes_i1)),
        2, MapPut(MapPut(MapPut(Tree(PStr_n0, Bytes_s0), Path_from(PStr_s0_n0), Bytes_s0),
                  Path_from(PStr_bt_n0), Bytes_i1),
                  Path_from(PStr_bf_n0), Bytes_i1))

InboundChoices == {InboundMessage_default, I_full}

----------------------------------------------------------------------------
(* The program and the ghost variables.                                    *)
(*                                                                         *)
(* prog[d]: where device d's program is: the phase ("idle" between rounds, *)
(* "running", "panicked"), the round number, the primitives invoked so far *)
(* and the frames of the callbacks that are running.                       *)
(*                                                                         *)
(* obs[d]: what has been observed of device d in the current round: erred  *)
(* (a primitive returned an error), last (the last primitive step), log    *)
(* (the invocations, in order), events (the alignment calls, in order) and *)
(* writes (the keys appended to the outbound message, in order).           *)

Frame(kind, path, ty, cond, callee, depthIn, field) ==
    [kind |-> kind, path |-> path, ty |-> ty, cond |-> cond, callee |-> callee,
     depthIn |-> depthIn, field |-> field]

Depth(v) == Len(v.alignment_stack.stack)

NoLast == [prim |-> "none", at |-> "none", tag |-> "none", arg |-> NoValue,
           value |-> NoValue, field |-> NoField, path |-> << >>,
           depthIn |-> 0, depthOut |-> 0, pre |-> VM_new(LocalId)]

Last(prim, at, tag, arg, value, field, path, depthIn, depthOut, pre) ==
    [prim |-> prim, at |-> at, tag |-> tag, arg |-> arg, value |-> value,
     field |-> field, path |-> path, depthIn |-> depthIn, depthOut |-> depthOut,
     pre |-> pre]

\* the index of the last ":" of a coordinate string
LastColon(s) == CHOOSE i \in 1..Len(s) : s[i] = ":" /\ \A j \in (i + 1)..Len(s) : s[j] # ":"

CoordToken(s) == SubSeq(s, 1, LastColon(s) - 1)

\* the counter of a coordinate string, as its decimal digits
CoordCounter(s) == SubSeq(s, LastColon(s) + 1, Len(s))

PathParent(p) == SubSeq(p, 1, Len(p) - 1)

PathLast(p) == p[Len(p)]

\* an invocation: the primitive, the path it was aligned on, the key of the
\* path in an outbound message and, read from the path, its parent path,
\* its token and its counter
LogEntry(prim, path) ==
    [prim |-> prim, path |-> path, key |-> Path_to_string(path),
     parent |-> PathParent(path), token |-> CoordToken(PathLast(path)),
     counter |-> CoordCounter(PathLast(path))]

ObsInit == [erred |-> FALSE, last |-> NoLast, log |-> << >>, events |-> << >>,
            writes |-> << >>]

ProgInit == [phase |-> "idle", round |-> 0, calls |-> 0, frames |-> << >>]

IsErr(tag) == tag \in {"SerializationError", "DeserializationError"}

Running(d) == prog[d].phase = "running"

CanCall(d) == Running(d) /\ prog[d].calls < MaxCalls

CanEnter(d) == CanCall(d) /\ Len(prog[d].frames) < MaxDepth

Top(d) == prog[d].frames[Len(prog[d].frames)]

Pop(frames) == SubSeq(frames, 1, Len(frames) - 1)

\* the devices that host a VM
Nodes == {LocalId, 1}

\* device d has run a round and is back in the engine
RoundEnded(d) == prog[d].phase = "idle" /\ prog[d].round >= 1

\* net[d]: the outbound message device d handed to the network at the end of
\* its last round, with the invocations of that round
NetInit(d) == [sent |-> FALSE, msg |-> OutboundMessage_empty(d), log |-> << >>]

Init ==
    /\ vm = [d \in Nodes |-> VM_new(d)]
    /\ prog = [d \in Nodes |-> ProgInit]
    /\ obs = [d \in Nodes |-> ObsInit]
    /\ net = [d \in Nodes |-> NetInit(d)]

\* start of a round: the engine hands the VM the inbound message
PrepareNewRound(d, inbound) ==
    /\ prog[d].phase = "idle"
    /\ prog[d].round < MaxRounds
    /\ prog[d].calls < MaxCalls
    /\ vm' = [vm EXCEPT ![d] = VM_prepare_new_round(@, inbound)]
    /\ prog' = [prog EXCEPT ![d] = [phase |-> "running", round |-> @.round + 1,
                                    calls |-> @.calls, frames |-> << >>]]
    /\ obs' = [obs EXCEPT ![d] = ObsInit]
    /\ UNCHANGED net

\* the program returns to the engine, which hands the outbound message to
\* the network
EndRound(d) ==
    /\ Running(d)
    /\ prog[d].frames = << >>
    /\ prog' = [prog EXCEPT ![d].phase = "idle"]
    /\ net' = [net EXCEPT ![d] = [sent |-> TRUE, msg |-> vm[d].outbound,
                                   log |-> obs[d].log]]
    /\ UNCHANGED <<vm, obs>>

\* neighboring on VMs that share one outbound message
Neighboring_shared_outbound(d, value) ==
    /\ CanCall(d)
    /\ LET r == VM_neighboring(vm[d], value)
       IN /\ vm' = [e \in DOMAIN vm |->
                       IF e = d THEN r.vm
                       ELSE [vm[e] EXCEPT !.outbound.underlying = r.vm.outbound.underlying]]
          /\ prog' = [prog EXCEPT ![d].calls = @ + 1]
          /\ obs' = [obs EXCEPT ![d] =
                [erred |-> @.erred \/ IsErr(r.tag),
                 last |-> Last("neighboring", "return", r.tag, value, NoValue, r.field,
                               r.path, Depth(vm[d]), Depth(r.vm), vm[d]),
                 log |-> Append(@.log, LogEntry("neighboring", r.path)),
                 events |-> @.events \o r.calls,
                 writes |-> IF r.tag = "Ok"
                            THEN Append(@.writes, Path_to_string(r.path))
                            ELSE @.writes]]
    /\ UNCHANGED net

Neighboring(d, value) ==
    /\ CanCall(d)
    /\ LET r == VM_neighboring(vm[d], value)
       IN /\ vm' = [vm EXCEPT ![d] = r.vm]
          /\ prog' = [prog EXCEPT ![d].calls = @ + 1]
          /\ obs' = [obs EXCEPT ![d] =
                [erred |-> @.erred \/ IsErr(r.tag),
                 last |-> Last("neighboring", "return", r.tag, value, NoValue, r.field,
                               r.path, Depth(vm[d]), Depth(r.vm), vm[d]),
                 log |-> Append(@.log, LogEntry("neighboring", r.path)),
                 events |-> @.events \o r.calls,
                 writes |-> IF r.tag = "Ok"
                            THEN Append(@.writes, Path_to_string(r.path))
                            ELSE @.writes]]
    /\ UNCHANGED net

RepeatEnter(d, initial) ==
    /\ CanEnter(d)
    /\ LET r == VM_repeat_enter(vm[d], initial)
       IN /\ vm' = [vm EXCEPT ![d] = r.vm]
          /\ prog' = [prog EXCEPT ![d] =
                IF r.tag = "Panic"
                THEN [@ EXCEPT !.phase = "panicked", !.calls = @ + 1]
                ELSE [@ EXCEPT !.calls = @ + 1,
                               !.frames = Append(@, Frame("repeat", r.path, initial.ty, FALSE,
                                                          "evolution", Depth(vm[d]), NoField))]]
          /\ obs' = [obs EXCEPT ![d] =
                [@ EXCEPT !.last = Last("repeat", "enter", r.tag, initial, r.previous_state,
                                        NoField, r.path, Depth(vm[d]), Depth(r.vm), vm[d]),
                          !.log = Append(@, LogEntry("repeat", r.path)),
                          !.events = @ \o r.calls]]
    /\ UNCHANGED net

RepeatExit(d, updated_state) ==
    /\ Running(d)
    /\ prog[d].frames # << >>
    /\ Top(d).kind = "repeat"
    /\ updated_state.ty = Top(d).ty
    /\ LET r == VM_repeat_exit(vm[d], Top(d).path, updated_state)
       IN /\ vm' = [vm EXCEPT ![d] = r.vm]
          /\ prog' = [prog EXCEPT ![d].frames = Pop(@)]
          /\ obs' = [obs EXCEPT ![d] =
                [@ EXCEPT !.last = Last("repeat", "return", r.tag, updated_state, r.value,
                                        NoField, Top(d).path, Top(d).depthIn, Depth(r.vm),
                                        vm[d]),
                          !.events = @ \o r.calls]]
    /\ UNCHANGED net

BranchEnter(d, condition) ==
    /\ CanEnter(d)
    /\ LET r == VM_branch_enter(vm[d], condition)
       IN /\ vm' = [vm EXCEPT ![d] = r.vm]
          /\ prog' = [prog EXCEPT ![d] =
                [@ EXCEPT !.calls = @ + 1,
                          !.frames = Append(@, Frame("branch", r.path, "none", condition,
                                                     r.callee, Depth(vm[d]), NoField))]]
          /\ obs' = [obs EXCEPT ![d] =
                [@ EXCEPT !.last = Last("branch", "enter", "Ok", NoValue, NoValue, NoField,
                                        r.path, Depth(vm[d]), Depth(r.vm), vm[d]),
                          !.log = Append(@, LogEntry("branch", r.path)),
                          !.events = @ \o r.calls]]
    /\ UNCHANGED net

\* the callback returns result, of whatever type
BranchExit(d, result) ==
    /\ Running(d)
    /\ prog[d].frames # << >>
    /\ Top(d).kind = "branch"
    /\ LET r == VM_branch_exit(vm[d], result)
       IN /\ vm' = [vm EXCEPT ![d] = r.vm]
          /\ prog' = [prog EXCEPT ![d].frames = Pop(@)]
          /\ obs' = [obs EXCEPT ![d] =
                [@ EXCEPT !.last = Last("branch", "return", r.tag, result, r.value, NoField,
                                        Top(d).path, Top(d).depthIn, Depth(r.vm), vm[d]),
                          !.events = @ \o r.calls]]
    /\ UNCHANGED net

ShareEnter(d, initial) ==
    /\ CanEnter(d)
    /\ LET r == VM_share_enter(vm[d], initial)
       IN /\ vm' = [vm EXCEPT ![d] = r.vm]
          /\ prog' = [prog EXCEPT ![d] =
                IF r.tag = "Panic"
                THEN [@ EXCEPT !.phase = "panicked", !.calls = @ + 1]
                ELSE IF r.tag = "DeserializationError"
                THEN [@ EXCEPT !.calls = @ + 1]
                ELSE [@ EXCEPT !.calls = @ + 1,
                               !.frames = Append(@, Frame("share", r.path, initial.ty, FALSE,
                                                          "evolution", Depth(vm[d]), r.field))]]
          /\ obs' = [obs EXCEPT ![d] =
                [@ EXCEPT !.erred = @ \/ IsErr(r.tag),
                          !.last = Last("share", IF r.tag = "Ok" THEN "enter" ELSE "return",
                                        r.tag, initial, NoValue, r.field, r.path,
                                        Depth(vm[d]), Depth(r.vm), vm[d]),
                          !.log = Append(@, LogEntry("share", r.path)),
                          !.events = @ \o r.calls]]
    /\ UNCHANGED net

ShareExit(d, updated_state) ==
    /\ Running(d)
    /\ prog[d].frames # << >>
    /\ Top(d).kind = "share"
    /\ updated_state.ty = Top(d).ty
    /\ LET r == VM_share_exit(vm[d], Top(d).path, updated_state)
       IN /\ vm' = [vm EXCEPT ![d] = r.vm]
          /\ prog' = [prog EXCEPT ![d].frames = Pop(@)]
          /\ obs' = [obs EXCEPT ![d] =
                [@ EXCEPT !.erred = @ \/ IsErr(r.tag),
                          !.last = Last("share", "return", r.tag, updated_state, r.value,
                                        Top(d).field, Top(d).path, Top(d).depthIn,
                                        Depth(r.vm), vm[d]),
                          !.events = @ \o r.calls,
                          !.writes = IF r.tag = "Ok"
                                     THEN Append(@, Path_to_string(Top(d).path))
                                     ELSE @]]
    /\ UNCHANGED net

\* one device, any program, any inbound message
Next ==
    \/ \E inbound \in InboundChoices : PrepareNewRound(LocalId, inbound)
    \/ EndRound(LocalId)
    \/ \E value \in NeighboringArgs : Neighboring(LocalId, value)
    \/ \E initial \in RepeatArgs : RepeatEnter(LocalId, initial)
    \/ \E updated_state \in EvolutionResults : RepeatExit(LocalId, updated_state)
    \/ \E condition \in BOOLEAN : BranchEnter(LocalId, condition)
    \/ \E result \in Results : BranchExit(LocalId, result)
    \/ \E initial \in ShareArgs : ShareEnter(LocalId, initial)
    \/ \E updated_state \in EvolutionResults : ShareExit(LocalId, updated_state)

Spec == Init /\ [][Next]_vars

----------------------------------------------------------------------------
(* Saturation of the counters.  A counter saturates after 2^32 invocations *)
(* under one parent path, which no step-by-step exploration reaches.  The  *)
(* program fragment                                                        *)
(*     for _ in 0..n { vm.branch(true, |_| (), |_| ()) }                   *)
(* is n times align("branch[true]") followed by unalign: it leaves the     *)
(* stack as it was and advances the counter of the current path n times.   *)

\* n - 1 for a u32 n that is not zero
U32Pred(n) == IF n.lo > 0 THEN [n EXCEPT !.lo = @ - 1] ELSE [hi |-> n.hi - 1, lo |-> Limb - 1]

\* the alignment stack after n (at least one) align / unalign pairs
AlignmentStack_align_unalign_times(as, n) ==
    LET current_path == Path_new(as.stack)
    IN [as EXCEPT !.trace = MapPut(@, current_path,
            IF current_path \in DOMAIN as.trace
            THEN SaturatingAdd(as.trace[current_path], n)
            ELSE SaturatingAdd(U32(0), U32Pred(n)))]

VM_branch_times(v, n) ==
    [v EXCEPT !.alignment_stack = AlignmentStack_align_unalign_times(@, n)]

\* the numbers of iterations of the loop: 2^32 - 1 and 2^32 - 2
LoopCounts == {U32_MAX, U32Pred(U32_MAX)}

\* the loop as one step; the ghost variables keep the invocations made one by one
BranchLoop(d, n) ==
    /\ CanCall(d)
    /\ vm' = [vm EXCEPT ![d] = VM_branch_times(@, n)]
    /\ prog' = [prog EXCEPT ![d].calls = @ + 1]
    /\ UNCHANGED <<obs, net>>

\* one device, programs of neighboring and branch with such loops, no neighbors
NextSat ==
    \/ PrepareNewRound(LocalId, InboundMessage_default)
    \/ EndRound(LocalId)
    \/ \E n \in LoopCounts : BranchLoop(LocalId, n)
    \/ Neighboring(LocalId, Val(TyI32, 0))
    \/ \E condition \in BOOLEAN : BranchEnter(LocalId, condition)
    \/ BranchExit(LocalId, Val(TyI32, 0))

SpecSat == Init /\ [][NextSat]_vars

----------------------------------------------------------------------------
(* Two rounds side by side.  Device LocalId runs one round of a program on *)
(* fixed data without neighbors; afterwards device 1 runs rounds that make *)
(* the same alignment calls, on any data, any inbound message and whatever *)
(* state its earlier round stored.                                         *)

IsPrefix(a, b) == Len(a) <= Len(b) /\ SubSeq(b, 1, Len(a)) = a

\* device d may invoke one more primitive
Few(d) == prog[d].calls < MaxDuoCalls

\* device 1 has made no alignment call that device LocalId did not make
Follows == IsPrefix(obs'[1].events, obs[LocalId].events)

NextPair ==
    \/ prog[LocalId].round = 0 /\ PrepareNewRound(LocalId, InboundMessage_default)
    \/ EndRound(LocalId)
    \/ Few(LocalId) /\ Neighboring(LocalId, Val(TyI32, 0))
    \/ Few(LocalId) /\ RepeatEnter(LocalId, Val(TyI32, 0))
    \/ RepeatExit(LocalId, Val(TyI32, 1))
    \/ \E condition \in BOOLEAN : Few(LocalId) /\ BranchEnter(LocalId, condition)
    \/ BranchExit(LocalId, Val(TyI32, 0))
    \/ Few(LocalId) /\ ShareEnter(LocalId, Val(TyI32, 0))
    \/ ShareExit(LocalId, Val(TyI32, 1))
    \/ RoundEnded(LocalId) /\ \E inbound \in InboundChoices : PrepareNewRound(1, inbound)
    \/ EndRound(1)
    \/ \E value \in NeighboringArgs : Few(1) /\ Neighboring(1, value) /\ Follows
    \/ \E initial \in RepeatArgs : Few(1) /\ RepeatEnter(1, initial) /\ Follows
    \/ \E updated_state \in EvolutionResults : RepeatExit(1, updated_state) /\ Follows
    \/ \E condition \in BOOLEAN : Few(1) /\ BranchEnter(1, condition) /\ Follows
    \/ \E result \in Results : BranchExit(1, result) /\ Follows
    \/ \E initial \in ShareArgs : Few(1) /\ ShareEnter(1, initial) /\ Follows
    \/ \E updated_state \in EvolutionResults : ShareExit(1, updated_state) /\ Follows

SpecPair == Init /\ [][NextPair]_vars

----------------------------------------------------------------------------
(* Two devices that exchange their messages.  The network hands a device   *)
(* the last outbound message of each other device, the keys turned into    *)
(* paths with Path::from; each device runs one round, one device after the *)
(* other, in either order.                                                 *)

ValueTree_of(outbound) ==
    [p \in {Path_from(k) : k \in DOMAIN outbound.underlying} |->
        outbound.underlying[CHOOSE k \in DOMAIN outbound.underlying : Path_from(k) = p]]

Network_prepare_inbound(d) ==
    [e \in {x \in Nodes \ {d} : net[x].sent} |-> ValueTree_of(net[e].msg)]

\* one cycle of the engine of device d starts
Cycle(d) ==
    /\ \A e \in Nodes \ {d} : prog[e].phase = "idle"
    /\ prog[d].round = 0
    /\ PrepareNewRound(d, Network_prepare_inbound(d))

NextNet ==
    \/ \E d \in Nodes : Cycle(d)
    \/ \E d \in Nodes : EndRound(d)
    \/ \E d \in Nodes : Few(d) /\ Neighboring(d, Val(TyI32, 0))
    \/ \E d \in Nodes : \E condition \in BOOLEAN : Few(d) /\ BranchEnter(d, condition)
    \/ \E d \in Nodes : BranchExit(d, Val(TyI32, 0))
    \/ \E d \in Nodes : Few(d) /\ ShareEnter(d, Val(TyI32, 0))
    \/ \E d \in Nodes : ShareExit(d, Val(TyI32, 1))

SpecNet == Init /\ [][NextNet]_vars

----------------------------------------------------------------------------
(* Two devices whose rounds interleave.  Each device runs one round; a     *)
(* round may start while the other device is in its round, and the steps   *)
(* of the two programs are taken in any order.                             *)

\* one cycle of the engine of device d starts, whatever the others do
CycleAnyTime(d) ==
    /\ prog[d].round = 0
    /\ PrepareNewRound(d, Network_prepare_inbound(d))

NextInterleaved ==
    \/ \E d \in Nodes : CycleAnyTime(d)
    \/ \E d \in Nodes : EndRound(d)
    \/ \E d \in Nodes : Few(d) /\ Neighboring(d, Val(TyI32, 0))
    \/ \E d \in Nodes : \E condition \in BOOLEAN : Few(d) /\ BranchEnter(d, condition)
    \/ \E d \in Nodes : BranchExit(d, Val(TyI32, 0))
    \/ \E d \in Nodes : Few(d) /\ ShareEnter(d, Val(TyI32, 0))
    \/ \E d \in Nodes : ShareExit(d, Val(TyI32, 1))

SpecInterleaved == Init /\ [][NextInterleaved]_vars

----------------------------------------------------------------------------
(* Device LocalId runs several rounds and device 1 one round, one cycle at *)
(* a time: a device starts a cycle when the other is between cycles and    *)
(* gets the message the other sent last.                                   *)

\* one more cycle of the engine of device d starts
CycleInTurn(d) ==
    /\ \A e \in Nodes \ {d} : prog[e].phase = "idle"
    /\ PrepareNewRound(d, Network_prepare_inbound(d))

NextRelay ==
    \/ CycleInTurn(LocalId)
    \/ prog[1].round = 0 /\ CycleInTurn(1)
    \/ \E d \in Nodes : EndRound(d)
    \/ \E d \in Nodes : \E value \in NeighboringArgs : Few(d) /\ Neighboring(d, value)
    \/ \E d \in Nodes : Few(d) /\ ShareEnter(d, Val(TyI32, 0))
    \/ \E d \in Nodes : ShareExit(d, Val(TyI32, 1))

SpecRelay == Init /\ [][NextRelay]_vars

----------------------------------------------------------------------------
(* A device whose program is one repeat or one share, run once per round   *)
(* with prepare_new_round between the rounds, as the tests of the VM drive *)
(* it.  The VM is created empty (VM::new) or from a snapshot of the state  *)
(* (VM::new_with_state).  Here prog[d] also holds the program, the state   *)
(* the VM was created with and, as ghosts, the inbound message given to    *)
(* the last prepare_new_round, the VM before it and the results of the     *)
(* rounds so far; calls counts the invocations of the current round.       *)

\* rounds of a device that runs its program once per round
MaxProgramRounds == 5

State_from_snapshot(snapshot) == snapshot

VM_new_with_state(local_id, state) ==
    [local_id |-> local_id,
     state |-> state,
     inbound |-> InboundMessage_default,
     outbound |-> OutboundMessage_empty(local_id),
     alignment_stack |-> AlignmentStack_new]

PStr_r0 == <<"repeat", ":", "0">>

\* the snapshot of the test: 20 at "repeat:0"
Snapshot_r0 == MapPut(EmptyMap, Path_from(PStr_r0), Val(TyI32, 20))

Snapshots == {EmptyMap, Snapshot_r0}

\* the callbacks |prev, _| prev and |prev, _| prev + 1 on i32
Evolve(evolution, x) == IF evolution = "identity" THEN x ELSE Val(x.ty, x.v + 1)

Programs ==
    [prim : {"repeat", "share"}, initial : {Val(TyI32, 1), Val(TyI32, 10)},
     evolution : {"identity", "increment"}]

\* I_share: the neighbors 1 and 2 with a number at share:0
I_share ==
    MapPut(MapPut(InboundMessage_default, 1, Tree(PStr_s0, Bytes_i1)),
           2, Tree(PStr_s0, Serializer_serialize(Val(TyI32, 0)).bytes))

\* I_bad: neighbor 2 with a string at share:0
I_bad == MapPut(InboundMessage_default, 2, Tree(PStr_s0, Bytes_s0))

ProgramInbounds == {InboundMessage_default, I_share, I_bad}

ProgramInit(program, snapshot) ==
    [phase |-> "idle", round |-> 0, calls |-> 0, frames |-> << >>,
     program |-> program, snapshot |-> snapshot,
     given |-> InboundMessage_default, before |-> VM_new(LocalId), results |-> << >>]

InitProgram ==
    \E program \in Programs : \E snapshot \in Snapshots :
        /\ vm = [d \in Nodes |-> VM_new_with_state(d, State_from_snapshot(snapshot))]
        /\ prog = [d \in Nodes |-> ProgramInit(program, snapshot)]
        /\ obs = [d \in Nodes |-> ObsInit]
        /\ net = [d \in Nodes |-> NetInit(d)]

\* vm.prepare_new_round(inbound) before the next run of the program
ProgramPrepare(d, inbound) ==
    /\ prog[d].phase = "idle"
    /\ prog[d].round < MaxProgramRounds
    /\ vm' = [vm EXCEPT ![d] = VM_prepare_new_round(@, inbound)]
    /\ prog' = [prog EXCEPT ![d] = [@ EXCEPT !.phase = "running", !.round = @ + 1,
                                             !.calls = 0, !.frames = << >>,
                                             !.given = inbound, !.before = vm[d]]]
    /\ obs' = [obs EXCEPT ![d] = ObsInit]
    /\ UNCHANGED net

\* the program has made its call and returns what the call returned
ProgramReturn(d) ==
    /\ Running(d)
    /\ prog[d].frames = << >>
    /\ prog[d].calls = 1
    /\ prog' = [prog EXCEPT ![d] = [@ EXCEPT !.phase = "idle",
                    !.results = Append(@, [tag |-> obs[d].last.tag,
                                           value |-> obs[d].last.value])]]
    /\ UNCHANGED <<vm, obs, net>>

\* the program is about to make its call
AtCall(d, prim) == prog[d].program.prim = prim /\ prog[d].calls = 0

NextProgram ==
    \/ \E inbound \in ProgramInbounds : ProgramPrepare(LocalId, inbound)
    \/ ProgramReturn(LocalId)
    \/ AtCall(LocalId, "repeat") /\ RepeatEnter(LocalId, prog[LocalId].program.initial)
    \/ /\ prog[LocalId].frames # << >>
       /\ RepeatExit(LocalId, Evolve(prog[LocalId].program.evolution, obs[LocalId].last.value))
    \/ AtCall(LocalId, "share") /\ ShareEnter(LocalId, prog[LocalId].program.initial)
    \/ /\ prog[LocalId].frames # << >>
       /\ ShareExit(LocalId, Evolve(prog[LocalId].program.evolution,
                                     Field_local(Top(LocalId).field)))

SpecProgram == InitProgram /\ [][NextProgram]_vars

----------------------------------------------------------------------------
(* A program that combines two fields with aligned_map.  Here prog[d]      *)
(* holds the fields a and b, the function and, once a.aligned_map(b, f)    *)
(* has returned, its result.                                               *)

\* the largest number in a field
MaxFieldValue == 1

FieldValues == {Val(TyI32, n) : n \in 0..MaxFieldValue}

\* BTreeMap<Id, V>: the maps from some devices to values
FieldOverrides == UNION {[ids -> FieldValues] : ids \in SUBSET Devices}

Fields == {Field_new(default, overrides) :
               default \in FieldValues, overrides \in FieldOverrides}

FieldProgInit(a, b, transform) ==
    [phase |-> "idle", round |-> 0, calls |-> 0, frames |-> << >>,
     a |-> a, b |-> b, transform |-> transform, out |-> NoField]

InitField ==
    \E a \in Fields : \E b \in Fields : \E transform \in Transforms :
        /\ vm = [d \in Nodes |-> VM_new(d)]
        /\ prog = [d \in Nodes |-> FieldProgInit(a, b, transform)]
        /\ obs = [d \in Nodes |-> ObsInit]
        /\ net = [d \in Nodes |-> NetInit(d)]

\* out = a.aligned_map(&b, transform)
AlignedMap(d) ==
    /\ prog[d].phase = "idle"
    /\ prog' = [prog EXCEPT ![d] = [@ EXCEPT !.phase = "mapped",
                    !.out = Field_aligned_map(prog[d].a, prog[d].b,
                                              prog[d].transform)]]
    /\ UNCHANGED <<vm, obs, net>>

NextField == AlignedMap(LocalId)

SpecField == InitField /\ [][NextField]_vars

----------------------------------------------------------------------------
(* The engine.  Engine::cycle is modelled statement by statement.  Here    *)
(* prog[d] also holds the engine's position in cycle (pc, the number of    *)
(* the next statement), the locals of cycle (inbound, result,              *)
(* serialized_outbound), what the last cycle returned (out) and, as a      *)
(* ghost, the statements the current cycle has executed (steps); round     *)
(* counts the cycles and calls the invocations of the current cycle.       *)
(* net[d] also holds the bytes the network was handed and how often it was *)
(* handed some.  The network is a trait: it may return any inbound         *)
(* message.                                                                *)

\* cycles of an engine
MaxCycles == 2

\* the order of the lexemes of a key as bytes: '/' < digits < ':' < ']' < letters
LexemeOrder ==
    <<"/", "0", "1", "2", "3", "4", "5", "6", "7", "8", "9", ":", "]",
      "branch[", "false", "neighboring", "repeat", "share", "true">>

LexemeRank(c) == CHOOSE i \in 1..Len(LexemeOrder) : LexemeOrder[i] = c

\* the order of String keys in a BTreeMap
KeyLess(a, b) ==
    \/ Len(a) < Len(b) /\ SubSeq(b, 1, Len(a)) = a
    \/ \E i \in 1..Len(a) :
          /\ i <= Len(b)
          /\ SubSeq(a, 1, i - 1) = SubSeq(b, 1, i - 1)
          /\ LexemeRank(a[i]) < LexemeRank(b[i])

RECURSIVE SortedKeys(_)
SortedKeys(keys) ==
    IF keys = {} THEN << >>
    ELSE LET first == CHOOSE k \in keys : \A o \in keys \ {k} : KeyLess(k, o)
         IN <<first>> \o SortedKeys(keys \ {first})

\* the number of a byte of a serialized value: an ASCII digit or the quote
ByteCode(b) == IF IsDigit(b) THEN 48 + DigitValue(b) ELSE 34

\* serde_json of a Vec<u8>: the array of its numbers
JsonOfBytes(bytes) ==
    <<"[">> \o Join([i \in 1..Len(bytes) |-> I32ToString(ByteCode(bytes[i]))], ",")
            \o <<"]">>

\* serde_json of an OutboundMessage: {"sender":..,"underlying":{"key":[..],..}}
Serializer_serialize_message(outbound) ==
    LET keys == SortedKeys(DOMAIN outbound.underlying)
        entry(k) == <<Quote>> \o k \o <<Quote, ":">> \o JsonOfBytes(outbound.underlying[k])
    IN [ok |-> TRUE,
        bytes |-> <<"{", Quote, "sender", Quote, ":">> \o I32ToString(outbound.sender)
                  \o <<",", Quote, "underlying", Quote, ":", "{">>
                  \o Join([i \in 1..Len(keys) |-> entry(keys[i])], ",")
                  \o <<"}", "}">>]

VM_get_outbound(v) == Serializer_serialize_message(v.outbound)

\* the call of the engine that hands the VM the inbound message of the round
VM_set_inbound(v, inbound) == VM_prepare_new_round(v, inbound)

\* cycle that serializes and sends before it runs the program
Engine_cycle_statement_sends_first(pc) ==
    <<"prepare_inbound", "set_inbound", "get_outbound", "prepare_outbound",
      "program", "return">>[pc]

\* the statements of Engine::cycle, in order
Engine_cycle_statement(pc) ==
    <<"prepare_inbound", "set_inbound", "program", "get_outbound",
      "prepare_outbound", "return">>[pc]

NoResult == [tag |-> "none", value |-> NoValue]

NoBytes == [ok |-> FALSE, bytes |-> << >>]

\* Engine::new
EngineInit ==
    [phase |-> "idle", round |-> 0, calls |-> 0, frames |-> << >>,
     pc |-> 1, inbound |-> InboundMessage_default, result |-> NoResult,
     serialized_outbound |-> NoBytes, out |-> NoResult, steps |-> << >>]

EngineNetInit(d) ==
    [sent |-> FALSE, msg |-> OutboundMessage_empty(d), log |-> << >>,
     bytes |-> << >>, handed |-> 0]

InitEngine ==
    /\ vm = [d \in Nodes |-> VM_new(d)]
    /\ prog = [d \in Nodes |-> EngineInit]
    /\ obs = [d \in Nodes |-> ObsInit]
    /\ net = [d \in Nodes |-> EngineNetInit(d)]

\* the engine of device d is about to execute statement stmt of cycle
At(d, stmt) == prog[d].phase = "cycle" /\ Engine_cycle_statement(prog[d].pc) = stmt

\* prog[d] after statement stmt
Stepped(d, stmt) == [prog[d] EXCEPT !.pc = @ + 1, !.steps = Append(@, stmt)]

\* engine.cycle() is called
CycleCall(d) ==
    /\ prog[d].phase = "idle"
    /\ prog[d].round < MaxCycles
    /\ prog' = [prog EXCEPT ![d] = [@ EXCEPT !.phase = "cycle", !.pc = 1,
                    !.round = @ + 1, !.calls = 0, !.steps = << >>,
                    !.result = NoResult, !.serialized_outbound = NoBytes]]
    /\ UNCHANGED <<vm, obs, net>>

\* let inbound = self.network.prepare_inbound();
CyclePrepareInbound(d, inbound) ==
    /\ At(d, "prepare_inbound")
    /\ prog' = [prog EXCEPT ![d] = [Stepped(d, "prepare_inbound") EXCEPT
                                       !.inbound = inbound]]
    /\ UNCHANGED <<vm, obs, net>>

\* self.vm.set_inbound(inbound);
CycleSetInbound(d) ==
    /\ At(d, "set_inbound")
    /\ vm' = [vm EXCEPT ![d] = VM_set_inbound(@, prog[d].inbound)]
    /\ prog' = [prog EXCEPT ![d] = Stepped(d, "set_inbound")]
    /\ obs' = [obs EXCEPT ![d] = ObsInit]
    /\ UNCHANGED net

\* (self.program)(&self.environment, &mut self.vm) is called
CycleProgramCall(d) ==
    /\ At(d, "program")
    /\ prog' = [prog EXCEPT ![d].phase = "running"]
    /\ UNCHANGED <<vm, obs, net>>

\* the program returns the result of its last call: let result = ..;
CycleProgramReturn(d) ==
    /\ Running(d)
    /\ prog[d].frames = << >>
    /\ prog' = [prog EXCEPT ![d] = [Stepped(d, "program") EXCEPT
                    !.phase = "cycle",
                    !.result = [tag |-> obs[d].last.tag, value |-> obs[d].last.value]]]
    /\ UNCHANGED <<vm, obs, net>>

\* let serialized_outbound = self.vm.get_outbound();
CycleGetOutbound(d) ==
    /\ At(d, "get_outbound")
    /\ prog' = [prog EXCEPT ![d] = [Stepped(d, "get_outbound") EXCEPT
                    !.serialized_outbound = VM_get_outbound(vm[d])]]
    /\ UNCHANGED <<vm, obs, net>>

\* a cycle that skips the send when the program returned an error
CyclePrepareOutbound_skips_after_error(d) ==
    /\ At(d, "prepare_outbound")
    /\ net' = IF IsErr(prog[d].result.tag) THEN net
              ELSE [net EXCEPT ![d] = [sent |-> TRUE, msg |-> vm[d].outbound,
                                       log |-> obs[d].log,
                                       bytes |-> prog[d].serialized_outbound.bytes,
                                       handed |-> @.handed + 1]]
    /\ prog' = [prog EXCEPT ![d] = Stepped(d, "prepare_outbound")]
    /\ UNCHANGED <<vm, obs>>

\* self.network.prepare_outbound(serialized_outbound);
CyclePrepareOutbound(d) ==
    /\ At(d, "prepare_outbound")
    /\ net' = [net EXCEPT ![d] = [sent |-> TRUE, msg |-> vm[d].outbound,
                                   log |-> obs[d].log,
                                   bytes |-> prog[d].serialized_outbound.bytes,
                                   handed |-> @.handed + 1]]
    /\ prog' = [prog EXCEPT ![d] = Stepped(d, "prepare_outbound")]
    /\ UNCHANGED <<vm, obs>>

\* result
CycleReturn(d) ==
    /\ At(d, "return")
    /\ prog' = [prog EXCEPT ![d] = [Stepped(d, "return") EXCEPT
                    !.phase = "idle", !.out = prog[d].result]]
    /\ UNCHANGED <<vm, obs, net>>

\* one engine, any program of at most MaxDuoCalls invocations a cycle
NextEngine ==
    \/ CycleCall(LocalId)
    \/ \E inbound \in InboundChoices : CyclePrepareInbound(LocalId, inbound)
    \/ CycleSetInbound(LocalId)
    \/ CycleProgramCall(LocalId)
    \/ CycleProgramReturn(LocalId)
    \/ CycleGetOutbound(LocalId)
    \/ CyclePrepareOutbound(LocalId)
    \/ CycleReturn(LocalId)
    \/ \E value \in NeighboringArgs : Few(LocalId) /\ Neighboring(LocalId, value)
    \/ \E condition \in BOOLEAN : Few(LocalId) /\ BranchEnter(LocalId, condition)
    \/ BranchExit(LocalId, Val(TyI32, 0))
    \/ Few(LocalId) /\ ShareEnter(LocalId, Val(TyI32, 0))
    \/ ShareExit(LocalId, Val(TyI32, 1))

SpecEngine == InitEngine /\ [][NextEngine]_vars

----------------------------------------------------------------------------
(* Twins.  Two VMs with the local id LocalId run the same program on the   *)
(* same inbound message from the same state.  vm[LocalId] lives on from    *)
(* round to round; vm[1] is created anew for every round from a snapshot   *)
(* of the state of vm[LocalId] (VM::new_with_state).  The program is any   *)
(* sequence of invocations; vm[LocalId] takes a step of it, then vm[1]     *)
(* takes the same step: the same primitive with the same argument, the     *)
(* same callback with the same result.                                     *)

\* both VMs have taken the same number of steps of the program
InStep == Len(obs[LocalId].events) = Len(obs[1].events)

\* the step vm[LocalId] has taken and vm[1] has not yet
Ahead(prim, at) ==
    /\ ~InStep
    /\ obs[LocalId].last.prim = prim
    /\ at = (IF /\ prim # "neighboring"
                 /\ \/ obs[LocalId].last.at = "enter"
                    \/ obs[LocalId].last.tag \in {"Panic", "DeserializationError"}
             THEN "enter" ELSE "return")

InitTwin ==
    /\ vm = [d \in Nodes |-> VM_new(LocalId)]
    /\ prog = [d \in Nodes |-> ProgInit]
    /\ obs = [d \in Nodes |-> ObsInit]
    /\ net = [d \in Nodes |-> NetInit(d)]

\* a round starts on both: vm[1] is created from the state of vm[LocalId]
TwinPrepare(inbound) ==
    /\ \A d \in Nodes : prog[d].phase = "idle"
    /\ prog[LocalId].round < MaxRounds
    /\ Few(LocalId)
    /\ vm' = [vm EXCEPT
                ![LocalId] = VM_prepare_new_round(@, inbound),
                ![1] = VM_prepare_new_round(
                           VM_new_with_state(LocalId,
                                             State_from_snapshot(vm[LocalId].state)),
                           inbound)]
    /\ prog' = [d \in Nodes |->
                   [phase |-> "running", round |-> prog[LocalId].round + 1,
                    calls |-> prog[LocalId].calls, frames |-> << >>]]
    /\ obs' = [d \in Nodes |-> ObsInit]
    /\ UNCHANGED net

NextTwin ==
    \/ \E inbound \in InboundChoices : TwinPrepare(inbound)
    \/ InStep /\ EndRound(LocalId)
    \/ \E value \in NeighboringArgs :
          InStep /\ Few(LocalId) /\ Neighboring(LocalId, value)
    \/ \E initial \in RepeatArgs :
          InStep /\ Few(LocalId) /\ RepeatEnter(LocalId, initial)
    \/ \E updated_state \in EvolutionResults : InStep /\ RepeatExit(LocalId, updated_state)
    \/ \E condition \in BOOLEAN :
          InStep /\ Few(LocalId) /\ BranchEnter(LocalId, condition)
    \/ \E result \in Results : InStep /\ BranchExit(LocalId, result)
    \/ \E initial \in ShareArgs :
          InStep /\ Few(LocalId) /\ ShareEnter(LocalId, initial)
    \/ \E updated_state \in EvolutionResults : InStep /\ ShareExit(LocalId, updated_state)
    \/ InStep /\ prog[LocalId].phase = "idle" /\ EndRound(1)
    \/ Ahead("neighboring", "return") /\ Neighboring(1, obs[LocalId].last.arg)
    \/ Ahead("repeat", "enter") /\ RepeatEnter(1, obs[LocalId].last.arg)
    \/ Ahead("repeat", "return") /\ RepeatExit(1, obs[LocalId].last.arg)
    \/ Ahead("branch", "enter") /\ BranchEnter(1, Top(LocalId).cond)
    \/ Ahead("branch", "return") /\ BranchExit(1, obs[LocalId].last.arg)
    \/ Ahead("share", "enter") /\ ShareEnter(1, obs[LocalId].last.arg)
    \/ Ahead("share", "return") /\ ShareExit(1, obs[LocalId].last.arg)

SpecTwin == InitTwin /\ [][NextTwin]_vars

----------------------------------------------------------------------------
(* The same program on two devices that may take a branch differently.     *)
(* Both devices run one round on the same inbound message; device LocalId  *)
(* takes a step, then device 1 takes the same step, where the condition of *)
(* a branch is its own.                                                    *)

\* a round starts on both devices
BothPrepare(inbound) ==
    /\ \A d \in Nodes : prog[d].phase = "idle" /\ prog[d].round = 0
    /\ vm' = [d \in Nodes |-> VM_prepare_new_round(vm[d], inbound)]
    /\ prog' = [d \in Nodes |-> [phase |-> "running", round |-> 1, calls |-> 0,
                                 frames |-> << >>]]
    /\ obs' = [d \in Nodes |-> ObsInit]
    /\ UNCHANGED net

NextBranch ==
    \/ \E inbound \in InboundChoices : BothPrepare(inbound)
    \/ InStep /\ EndRound(LocalId)
    \/ InStep /\ Neighboring(LocalId, Val(TyI32, 0))
    \/ InStep /\ RepeatEnter(LocalId, Val(TyI32, 0))
    \/ InStep /\ RepeatExit(LocalId, Val(TyI32, 1))
    \/ \E condition \in BOOLEAN : InStep /\ BranchEnter(LocalId, condition)
    \/ InStep /\ BranchExit(LocalId, Val(TyI32, 0))
    \/ InStep /\ ShareEnter(LocalId, Val(TyI32, 0))
    \/ InStep /\ ShareExit(LocalId, Val(TyI32, 1))
    \/ InStep /\ prog[LocalId].phase = "idle" /\ EndRound(1)
    \/ Ahead("neighboring", "return") /\ Neighboring(1, obs[LocalId].last.arg)
    \/ Ahead("repeat", "enter") /\ RepeatEnter(1, obs[LocalId].last.arg)
    \/ Ahead("repeat", "return") /\ RepeatExit(1, obs[LocalId].last.arg)
    \/ \E condition \in BOOLEAN : Ahead("branch", "enter") /\ BranchEnter(1, condition)
    \/ Ahead("branch", "return") /\ BranchExit(1, obs[LocalId].last.arg)
    \/ Ahead("share", "enter") /\ ShareEnter(1, obs[LocalId].last.arg)
    \/ Ahead("share", "return") /\ ShareExit(1, obs[LocalId].last.arg)

SpecBranch == Init /\ [][NextBranch]_vars

----------------------------------------------------------------------------
(* A program that uses a State directly, as the tests of State do: it      *)
(* creates the state empty or from a snapshot and calls insert and get.    *)
(* Here prog[d] holds the state (store), the last call (op) with its path, *)
(* its value or type and what get returned (got), the last insert with the *)
(* state before it, and whether a get has panicked (phase).                *)

\* calls of insert and get
MaxStateOps == 3

StatePaths == {Path_from(PStr_r0), Path_from(PStr_s0), Path_from(PStr_s0_n0)}

NoGot == [tag |-> "none", value |-> NoValue, message |-> NoMessage]

StateProgInit(store) ==
    [phase |-> "idle", round |-> 0, calls |-> 0, frames |-> << >>,
     store |-> store, op |-> "none", path |-> << >>, ty |-> "none", got |-> NoGot,
     inserted |-> FALSE, ins_path |-> << >>, ins_value |-> NoValue,
     before |-> State_new]

InitState ==
    \E snapshot \in Snapshots :
        /\ vm = [d \in Nodes |-> VM_new(d)]
        /\ prog = [d \in Nodes |-> StateProgInit(State_from_snapshot(snapshot))]
        /\ obs = [d \in Nodes |-> ObsInit]
        /\ net = [d \in Nodes |-> NetInit(d)]

\* state.insert(path, value)
StateInsert(d, path, value) ==
    /\ prog[d].phase = "idle"
    /\ prog[d].calls < MaxStateOps
    /\ prog' = [prog EXCEPT ![d] = [@ EXCEPT
                    !.calls = @ + 1,
                    !.store = State_insert(prog[d].store, path, value),
                    !.op = "insert", !.path = path, !.ty = value.ty, !.got = NoGot,
                    !.inserted = TRUE, !.ins_path = path, !.ins_value = value,
                    !.before = prog[d].store]]
    /\ UNCHANGED <<vm, obs, net>>

\* state.get::<ty>(&path)
StateGet(d, ty, path) ==
    /\ prog[d].phase = "idle"
    /\ prog[d].calls < MaxStateOps
    /\ LET got == State_get(prog[d].store, ty, path)
       IN prog' = [prog EXCEPT ![d] = [@ EXCEPT
                      !.calls = @ + 1,
                      !.phase = IF got.tag = "Panic" THEN "panicked" ELSE "idle",
                      !.op = "get", !.path = path, !.ty = ty, !.got = got]]
    /\ UNCHANGED <<vm, obs, net>>

NextState ==
    \/ \E path \in StatePaths : \E value \in Values : StateInsert(LocalId, path, value)
    \/ \E path \in StatePaths : \E ty \in Types : StateGet(LocalId, ty, path)

SpecState == InitState /\ [][NextState]_vars

----------------------------------------------------------------------------
(* One round of any program, long loops included: the invocations of Next  *)
(* on numbers (neighboring on two of them) and the loops of NextSat.       *)

NextLong ==
    \/ prog[LocalId].round = 0
          /\ \E inbound \in InboundChoices : PrepareNewRound(LocalId, inbound)
    \/ EndRound(LocalId)
    \/ \E n \in LoopCounts : BranchLoop(LocalId, n)
    \/ \E value \in Results : Neighboring(LocalId, value)
    \/ RepeatEnter(LocalId, Val(TyI32, 0))
    \/ RepeatExit(LocalId, Val(TyI32, 1))
    \/ \E condition \in BOOLEAN : BranchEnter(LocalId, condition)
    \/ BranchExit(LocalId, Val(TyI32, 0))
    \/ \E initial \in ShareArgs : ShareEnter(LocalId, initial)
    \/ \E updated_state \in EvolutionResults : ShareExit(LocalId, updated_state)

SpecLong == Init /\ [][NextLong]_vars

----------------------------------------------------------------------------
(* Rounds of one device with the state at their start remembered.  Here    *)
(* prog[d] also holds, as ghosts, the State the VM had when the current    *)
(* round was prepared (start) and the alignment calls of the round before  *)
(* (flow).  share also runs on a type whose values do not      *)
(* serialize, with a callback that returns another value than the initial. *)

PStr_s1 == <<"share", ":", "1">>

\* I_mixed: at share:0 and at share:1 neighbor 1 with a number and neighbor 2
\* with a string
I_mixed ==
    MapPut(MapPut(InboundMessage_default,
        1, MapPut(Tree(PStr_s0, Bytes_i1), Path_from(PStr_s1), Bytes_i1)),
        2, MapPut(Tree(PStr_s0, Bytes_s0), Path_from(PStr_s1), Bytes_s0))

StartInbounds == InboundChoices \cup {I_mixed}

StartInit == [phase |-> "idle", round |-> 0, calls |-> 0, frames |-> << >>,
              start |-> State_new, flow |-> << >>]

InitStart ==
    /\ vm = [d \in Nodes |-> VM_new(d)]
    /\ prog = [d \in Nodes |-> StartInit]
    /\ obs = [d \in Nodes |-> ObsInit]
    /\ net = [d \in Nodes |-> NetInit(d)]

\* vm.prepare_new_round(inbound) at the start of a round
StartPrepare(d, inbound) ==
    /\ prog[d].phase = "idle"
    /\ prog[d].round < MaxRounds
    /\ prog[d].calls < MaxCalls
    /\ vm' = [vm EXCEPT ![d] = VM_prepare_new_round(@, inbound)]
    /\ prog' = [prog EXCEPT ![d] = [@ EXCEPT !.phase = "running", !.round = @ + 1,
                                             !.frames = << >>, !.start = vm[d].state,
                                             !.flow = obs[d].events]]
    /\ obs' = [obs EXCEPT ![d] = ObsInit]
    /\ UNCHANGED net

NextStart ==
    \/ \E inbound \in StartInbounds : StartPrepare(LocalId, inbound)
    \/ EndRound(LocalId)
    \/ Neighboring(LocalId, Val(TyI32, 0))
    \/ RepeatEnter(LocalId, Val(TyI32, 0))
    \/ RepeatExit(LocalId, Val(TyI32, 1))
    \/ \E condition \in BOOLEAN : BranchEnter(LocalId, condition)
    \/ BranchExit(LocalId, Val(TyI32, 0))
    \/ \E initial \in ShareArgs : ShareEnter(LocalId, initial)
    \/ \E updated_state \in {Val(TyI32, 1), Val(TyNoSer, 1)} :
           ShareExit(LocalId, updated_state)

SpecStart == InitStart /\ [][NextStart]_vars

----------------------------------------------------------------------------
(* A program that queries an InboundMessage directly.  Here prog[d] holds  *)
(* the message, the path asked for and, once they have returned, what      *)
(* get_at_path and devices_at_path gave.                                   *)

\* the largest number whose bytes a tree holds
MaxByte == 1

TreeBytes == {I32ToString(n) : n \in 0..MaxByte}

TreePaths == {Path_from(PStr_n0), Path_from(PStr_s0_n0)}

\* ValueTree::new(BTreeMap<Path, Vec<u8>>)
ValueTrees == UNION {[paths -> TreeBytes] : paths \in SUBSET TreePaths}

\* InboundMessage::new(BTreeMap<Id, ValueTree>)
InboundMessages == UNION {[ids -> ValueTrees] : ids \in SUBSET Devices}

QueryPaths == TreePaths \cup {Path_from(PStr_s0)}

InboundProgInit(inbound, path) ==
    [phase |-> "idle", round |-> 0, calls |-> 0, frames |-> << >>,
     inbound |-> inbound, path |-> path,
     asked |-> FALSE, got |-> EmptyMap, listed |-> FALSE, devices |-> {}]

InitInbound ==
    \E inbound \in InboundMessages : \E path \in QueryPaths :
        /\ vm = [d \in Nodes |-> VM_new(d)]
        /\ prog = [d \in Nodes |-> InboundProgInit(inbound, path)]
        /\ obs = [d \in Nodes |-> ObsInit]
        /\ net = [d \in Nodes |-> NetInit(d)]

\* got = inbound.get_at_path(&path)
GetAtPath(d) ==
    /\ ~prog[d].asked
    /\ prog' = [prog EXCEPT ![d] = [@ EXCEPT
                    !.asked = TRUE,
                    !.got = InboundMessage_get_at_path(prog[d].inbound, prog[d].path)]]
    /\ UNCHANGED <<vm, obs, net>>

\* devices = inbound.devices_at_path(&path)
DevicesAtPath(d) ==
    /\ ~prog[d].listed
    /\ prog' = [prog EXCEPT ![d] = [@ EXCEPT
                    !.listed = TRUE,
                    !.devices = InboundMessage_devices_at_path(prog[d].inbound,
                                                               prog[d].path)]]
    /\ UNCHANGED <<vm, obs, net>>

NextInbound == GetAtPath(LocalId) \/ DevicesAtPath(LocalId)

SpecInbound == InitInbound /\ [][NextInbound]_vars

----------------------------------------------------------------------------
(* Reading the ghost variables.                                            *)

\* the decimal digits of the numbers below k
CountersBelow(k) == {U32ToString(U32(i)) : i \in 0..(k - 1)}

\* the log entries of device d under parent path pp with token tok
Siblings(d, pp, tok) ==
    {i \in 1..Len(obs[d].log) :
        /\ obs[d].log[i].parent = pp
        /\ obs[d].log[i].token = tok}

Emitted(d, i) ==
    \E j \in 1..Len(obs[d].writes) : obs[d].writes[j] = obs[d].log[i].key

Parents(d) == {obs[d].log[i].parent : i \in 1..Len(obs[d].log)}

\* the paths the invocations of device d's round received, in order
LogPaths(d) == [i \in 1..Len(obs[d].log) |-> obs[d].log[i].path]

Occurrences(x, seq) == Cardinality({i \in 1..Len(seq) : seq[i] = x})

SameMultiset(a, b) ==
    \A x \in {a[i] : i \in 1..Len(a)} \cup {b[i] : i \in 1..Len(b)} :
        Occurrences(x, a) = Occurrences(x, b)

\* the round of device 1 made the alignment calls of the round of device LocalId
SameAlignmentCalls ==
    /\ RoundEnded(LocalId)
    /\ prog[1].round >= 1
    /\ obs[1].events = obs[LocalId].events

IsBranchCoordinate(c) ==
    CoordToken(c) \in {<<"branch[", "true", "]">>, <<"branch[", "false", "]">>}

\* the coordinate of the same branch taken the other way
OtherBranch(c) ==
    (IF CoordToken(c) = <<"branch[", "true", "]">>
     THEN <<"branch[", "false", "]">> ELSE <<"branch[", "true", "]">>)
        \o <<":">> \o CoordCounter(c)

\* in the round whose message device d holds, device e took the branch that
\* is coordinate i of path the other way
TookOtherBranch(e, path, i) ==
    \E j \in 1..Len(net[e].log) :
        net[e].log[j].path = Append(SubSeq(path, 1, i - 1), OtherBranch(path[i]))

\* device d has just got a field from neighboring or share
GotField(d) ==
    /\ Running(d)
    /\ obs[d].last.prim \in {"neighboring", "share"}
    /\ obs[d].last.tag = "Ok"

----------------------------------------------------------------------------
(* C1: after a round in which every primitive returned without error, the  *)
(* alignment stack is empty, whatever the nesting of the primitives.       *)
C1_BalancedStack ==
    \A d \in Nodes : (RoundEnded(d) /\ ~obs[d].erred) => Depth(vm[d]) = 0

\* a round that ended without error after a primitive nested in a callback
C1_Witness ==
    /\ RoundEnded(LocalId)
    /\ ~obs[LocalId].erred
    /\ Len(obs[LocalId].log) >= 3
    /\ \E i \in 1..Len(obs[LocalId].log) : Len(obs[LocalId].log[i].path) = 2

(* C2: a DeserializationError of neighboring or share is returned with the *)
(* alignment stack at the depth it had on entry to the primitive.          *)
C2_DeserializationErrorUnaligns ==
    \A d \in Nodes :
        obs[d].last.tag = "DeserializationError"
            => obs[d].last.depthOut = obs[d].last.depthIn

(* C3: a SerializationError of neighboring or share is returned with the   *)
(* alignment stack at the depth it had on entry to the primitive.          *)
C3_SerializationErrorUnaligns ==
    \A d \in Nodes :
        obs[d].last.tag = "SerializationError"
            => obs[d].last.depthOut = obs[d].last.depthIn

C8_NeighboringField ==
    \A d \in Nodes :
        LET l == obs[d].last
            key == Path_to_string(l.path)
            before == l.pre.outbound.underlying
            after == vm[d].outbound.underlying
        IN (l.prim = "neighboring" /\ l.tag = "Ok") =>
            /\ PathParent(l.path) = Path_new(l.pre.alignment_stack.stack)
            /\ CoordToken(PathLast(l.path)) = Str("neighboring")
            /\ l.field.default = l.arg
            /\ DOMAIN l.field.overrides
                   = {id \in DOMAIN l.pre.inbound : l.path \in DOMAIN l.pre.inbound[id]}
            /\ \A id \in DOMAIN l.field.overrides :
                   /\ l.field.overrides[id].ty = l.arg.ty
                   /\ Serializer_serialize(l.field.overrides[id]).ok
                   /\ Serializer_serialize(l.field.overrides[id]).bytes
                          = l.pre.inbound[id][l.path]
            /\ DOMAIN after = DOMAIN before \cup {key}
            /\ key \notin DOMAIN before
            /\ Serializer_serialize(l.arg).ok
            /\ after[key] = Serializer_serialize(l.arg).bytes
            /\ \A k \in DOMAIN before : after[k] = before[k]
            /\ vm[d].outbound.sender = l.pre.outbound.sender

\* a neighboring that found two aligned neighbors
C8_Witness ==
    /\ obs[LocalId].last.prim = "neighboring"
    /\ obs[LocalId].last.tag = "Ok"
    /\ Cardinality(DOMAIN obs[LocalId].last.field.overrides) = 2

\* a neighboring that found no aligned neighbor although the inbound message has entries
C8_WitnessEmpty ==
    /\ obs[LocalId].last.prim = "neighboring"
    /\ obs[LocalId].last.tag = "Ok"
    /\ obs[LocalId].last.field.overrides = EmptyMap
    /\ vm[LocalId].inbound # InboundMessage_default

(* C10: branch aligns on branch[true] when the condition holds and on      *)
(* branch[false] otherwise, runs the selected callback and not the other,  *)
(* and when the callback returns it pops its coordinate and returns the    *)
(* callback's result.                                                      *)
C10_Branch ==
    \A d \in Nodes :
        /\ \A i \in 1..Len(prog[d].frames) :
              LET f == prog[d].frames[i]
              IN f.kind = "branch" =>
                  /\ Depth(vm[d]) > f.depthIn
                  /\ vm[d].alignment_stack.stack[f.depthIn + 1].token
                         = (IF f.cond THEN <<"branch[", "true", "]">>
                                      ELSE <<"branch[", "false", "]">>)
                  /\ f.callee = (IF f.cond THEN "th" ELSE "el")
        /\ (obs[d].last.prim = "branch" /\ obs[d].last.at = "return") =>
              /\ obs[d].last.value = obs[d].last.arg
              /\ Depth(obs[d].last.pre) >= 1
              /\ vm[d].alignment_stack.stack
                     = SubSeq(obs[d].last.pre.alignment_stack.stack, 1,
                              Depth(obs[d].last.pre) - 1)

\* a branch on a false condition has returned its callback's result
C10_Witness ==
    /\ obs[LocalId].last.prim = "branch"
    /\ obs[LocalId].last.at = "return"
    /\ obs[LocalId].last.value = Val(TyI32, 1)
    /\ CoordToken(PathLast(obs[LocalId].last.path)) = <<"branch[", "false", "]">>

(* C5 as stated: within one round, two sibling invocations of the same     *)
(* token under the same parent path never receive the same counter,        *)
(* however many siblings there are.                                        *)
C5_SiblingCountersDistinct ==
    \A d \in Nodes : \A i, j \in 1..Len(obs[d].log) :
        (i # j /\ obs[d].log[i].parent = obs[d].log[j].parent
               /\ obs[d].log[i].token
                      = obs[d].log[j].token)
            => obs[d].log[i].counter
                   # obs[d].log[j].counter

(* C5 amended: two sibling invocations of the same token under the same    *)
(* parent path receive distinct counters unless both receive 4294967295,   *)
(* the value at which the counter saturates: the first 2^32 invocations    *)
(* under a parent path are told apart, the later ones are not.             *)
C5_SiblingCountersDistinctBelowSaturation ==
    \A d \in Nodes : \A i, j \in 1..Len(obs[d].log) :
        (i # j /\ obs[d].log[i].parent = obs[d].log[j].parent
               /\ obs[d].log[i].token
                      = obs[d].log[j].token)
            => \/ obs[d].log[i].counter
                      # obs[d].log[j].counter
               \/ obs[d].log[i].counter = U32ToString(U32_MAX)

\* two neighboring siblings told apart by the last two values of the counter
C5_Witness ==
    \E i, j \in 1..Len(obs[LocalId].log) :
        /\ obs[LocalId].log[i].path = <<Str("neighboring") \o <<":">> \o U32ToString(U32Pred(U32_MAX))>>
        /\ obs[LocalId].log[j].path = <<Str("neighboring") \o <<":">> \o U32ToString(U32_MAX)>>

(* C7 as stated: within one round no append targets a key that is already *)
(* in the outbound message: every key is written at most once.             *)
C7_WrittenAtMostOnce ==
    \A d \in Nodes : \A i, j \in 1..Len(obs[d].writes) :
        i # j => obs[d].writes[i] # obs[d].writes[j]

(* C7 amended: a key is written at most once unless one of its coordinates *)
(* carries the saturated counter 4294967295: below 2^32 invocations under  *)
(* every parent path no key is written twice.                              *)
C7_WrittenAtMostOnceBelowSaturation ==
    \A d \in Nodes : \A i, j \in 1..Len(obs[d].writes) :
        (i # j /\ obs[d].writes[i] = obs[d].writes[j])
            => \E k \in 1..Len(Path_from(obs[d].writes[i])) :
                   CoordCounter(Path_from(obs[d].writes[i])[k]) = U32ToString(U32_MAX)

\* two keys written in one round, one of them under the last counter before saturation
C7_Witness ==
    /\ Len(obs[LocalId].writes) = 2
    /\ obs[LocalId].writes[1] = Str("neighboring") \o <<":">> \o U32ToString(U32Pred(U32_MAX))
    /\ obs[LocalId].writes[2] = Str("neighboring") \o <<":">> \o U32ToString(U32_MAX)
    /\ Cardinality(DOMAIN vm[LocalId].outbound.underlying) = 2

C9_BranchProjection ==
    \A d \in Nodes : GotField(d) =>
        LET l == obs[d].last
        IN /\ \A e \in Nodes \ {d} : \A i \in 1..(Len(l.path) - 1) :
                  (net[e].sent /\ IsBranchCoordinate(l.path[i])
                               /\ TookOtherBranch(e, l.path, i))
                      => e \notin DOMAIN l.field.overrides
           /\ \A id \in DOMAIN l.field.overrides :
                  /\ id \in Nodes \ {d}
                  /\ net[id].sent
                  /\ Path_to_string(l.path) \in DOMAIN net[id].msg.underlying

\* device LocalId inside branch[true] gets a field without device 1, which
\* emitted from neighboring inside branch[false]
C9_Witness ==
    /\ GotField(LocalId)
    /\ obs[LocalId].last.prim = "neighboring"
    /\ Len(obs[LocalId].last.path) = 2
    /\ CoordToken(obs[LocalId].last.path[1]) = <<"branch[", "true", "]">>
    /\ TookOtherBranch(1, obs[LocalId].last.path, 1)
    /\ Path_to_string(Append(<<OtherBranch(obs[LocalId].last.path[1])>>,
                             obs[LocalId].last.path[2]))
           \in DOMAIN net[1].msg.underlying
    /\ obs[LocalId].last.field.overrides = EmptyMap

\* device 1 inside branch[false] gets a field with device LocalId, which took
\* branch[false] too
C9_WitnessAligned ==
    /\ GotField(1)
    /\ Len(obs[1].last.path) = 2
    /\ CoordToken(obs[1].last.path[1]) = <<"branch[", "false", "]">>
    /\ DOMAIN obs[1].last.field.overrides = {LocalId}

(* C11: a program that is one repeat, run once per round with             *)
(* prepare_new_round between the rounds: with the identity callback every  *)
(* round returns the start value, with the callback x -> x + 1 round n     *)
(* (counted from 1) returns the start value plus n; the start value is     *)
(* initial for a VM created empty and the value of the snapshot at         *)
(* "repeat:0" for a VM created with one.                                   *)
C11_RepeatPersistence ==
    LET p == prog[LocalId]
        l == obs[LocalId].last
        start == IF Path_from(PStr_r0) \in DOMAIN p.snapshot
                 THEN p.snapshot[Path_from(PStr_r0)] ELSE p.program.initial
    IN (p.program.prim = "repeat" /\ l.prim = "repeat" /\ l.at = "return") =>
           /\ l.tag = "Ok"
           /\ l.value = (IF p.program.evolution = "identity" THEN start
                         ELSE Val(TyI32, start.v + p.round))

\* the test: a VM created with 20 at "repeat:0" returns 22 in round 2
C11_Witness ==
    /\ prog[LocalId].program = [prim |-> "repeat", initial |-> Val(TyI32, 10),
                                evolution |-> "increment"]
    /\ prog[LocalId].snapshot = Snapshot_r0
    /\ prog[LocalId].round = 2
    /\ obs[LocalId].last.at = "return"
    /\ obs[LocalId].last.value = Val(TyI32, 22)

\* a VM created empty returns 15 in round 5
C11_WitnessRounds ==
    /\ prog[LocalId].program = [prim |-> "repeat", initial |-> Val(TyI32, 10),
                                evolution |-> "increment"]
    /\ prog[LocalId].snapshot = EmptyMap
    /\ prog[LocalId].round = 5
    /\ obs[LocalId].last.at = "return"
    /\ obs[LocalId].last.value = Val(TyI32, 15)

\* the identity callback returns initial in round 3
C11_WitnessIdentity ==
    /\ prog[LocalId].program = [prim |-> "repeat", initial |-> Val(TyI32, 10),
                                evolution |-> "identity"]
    /\ prog[LocalId].snapshot = EmptyMap
    /\ prog[LocalId].round = 3
    /\ obs[LocalId].last.at = "return"
    /\ obs[LocalId].last.value = Val(TyI32, 10)

(* C12: repeat never writes to the outbound message: neither the step up  *)
(* to its callback nor the step from the callback's return changes the     *)
(* message, so after a repeat whose callback calls no other primitive the  *)
(* message is as it was, and it has no entry at the path of the repeat.    *)
C12_RepeatWritesNothing ==
    [][\A d \in Nodes :
          (obs'[d].last # obs[d].last /\ obs'[d].last.prim = "repeat") =>
              /\ vm'[d].outbound = vm[d].outbound
              /\ ~OutboundMessage_at(vm'[d].outbound, obs'[d].last.path).some]_vars

\* neighboring; repeat with a callback that calls nothing: the message holds
\* the entry of neighboring alone
C12_Witness ==
    /\ Len(obs[LocalId].log) = 2
    /\ obs[LocalId].log[1].prim = "neighboring"
    /\ obs[LocalId].log[2].prim = "repeat"
    /\ obs[LocalId].last.prim = "repeat"
    /\ obs[LocalId].last.at = "return"
    /\ DOMAIN vm[LocalId].outbound.underlying = {PStr_n0}
    /\ Path_from(<<"repeat", ":", "1">>) \in DOMAIN vm[LocalId].state

(* C13: a successful share(initial, evolution) aligned on path p passes    *)
(* its callback a field whose default is the value the state holds at p,   *)
(* or initial when it holds none, and whose overrides are the values       *)
(* decoded from the inbound entries at p; with the callback's result next  *)
(* it stores next in the state at p, adds the entry (p, serialize(next))   *)
(* to the outbound message and returns next; in the round after it, when   *)
(* the inbound message is empty, the field has default next and no         *)
(* overrides.                                                              *)
C13_Share ==
    LET p == prog[LocalId]
        l == obs[LocalId].last
        key == Path_to_string(l.path)
    IN (l.prim = "share" /\ l.tag = "Ok") =>
        /\ l.at = "enter" =>
              /\ l.path = Path_from(PStr_s0)
              /\ l.field.default = (IF l.path \in DOMAIN l.pre.state
                                    THEN l.pre.state[l.path] ELSE l.arg)
              /\ DOMAIN l.field.overrides
                     = {id \in DOMAIN p.given : l.path \in DOMAIN p.given[id]}
              /\ \A id \in DOMAIN l.field.overrides :
                     /\ l.field.overrides[id].ty = l.arg.ty
                     /\ Serializer_serialize(l.field.overrides[id]).bytes
                            = p.given[id][l.path]
              /\ (p.round >= 2 /\ p.results[p.round - 1].tag = "Ok"
                              /\ p.given = InboundMessage_default)
                     => l.field = Field_new(p.results[p.round - 1].value, EmptyMap)
        /\ l.at = "return" =>
              /\ l.value = l.arg
              /\ l.path \in DOMAIN vm[LocalId].state
              /\ vm[LocalId].state[l.path] = l.arg
              /\ DOMAIN vm[LocalId].outbound.underlying
                     = DOMAIN l.pre.outbound.underlying \cup {key}
              /\ OutboundMessage_at(vm[LocalId].outbound, l.path)
                     = [some |-> TRUE, bytes |-> Serializer_serialize(l.arg).bytes]
              /\ Serializer_serialize(l.arg).ok

\* the test: share(1, ..) with the neighbors 1 and 2 at share:0 in round 1,
\* then round 2 with an empty inbound message starts from the result of round 1
C13_Witness ==
    /\ prog[LocalId].program = [prim |-> "share", initial |-> Val(TyI32, 1),
                                evolution |-> "increment"]
    /\ prog[LocalId].round = 2
    /\ Len(prog[LocalId].results) = 1
    /\ prog[LocalId].before.inbound = I_share
    /\ prog[LocalId].results[1] = [tag |-> "Ok", value |-> Val(TyI32, 2)]
    /\ prog[LocalId].given = InboundMessage_default
    /\ obs[LocalId].last.prim = "share"
    /\ obs[LocalId].last.at = "return"
    /\ obs[LocalId].last.field = Field_new(Val(TyI32, 2), EmptyMap)
    /\ obs[LocalId].last.value = Val(TyI32, 3)

\* a share that passed its callback the values of two neighbors
C13_WitnessNeighbors ==
    /\ obs[LocalId].last.prim = "share"
    /\ obs[LocalId].last.at = "enter"
    /\ obs[LocalId].last.field
           = Field_new(Val(TyI32, 1), MapPut(MapPut(EmptyMap, 1, Val(TyI32, 1)),
                                                2, Val(TyI32, 0)))

(* C14: prepare_new_round(inbound) makes the given message the inbound    *)
(* message, makes the outbound message an empty one whose sender is the    *)
(* local id, makes the alignment stack empty, stack and counters, and      *)
(* leaves the state and the local id as they were.                         *)
C14_PrepareNewRound ==
    \A d \in Nodes :
        (Running(d) /\ prog[d].calls = 0) =>
            /\ vm[d].inbound = prog[d].given
            /\ vm[d].outbound = [sender |-> d, underlying |-> EmptyMap]
            /\ vm[d].alignment_stack = [stack |-> << >>, trace |-> EmptyMap]
            /\ vm[d].state = prog[d].before.state
            /\ vm[d].local_id = d

\* a round prepared after a round that stored a value and emitted an entry
\* under another inbound message
C14_Witness ==
    /\ Running(LocalId)
    /\ prog[LocalId].calls = 0
    /\ prog[LocalId].round >= 2
    /\ prog[LocalId].before.state # EmptyMap
    /\ prog[LocalId].before.outbound.underlying # EmptyMap
    /\ prog[LocalId].before.alignment_stack.trace # EmptyMap
    /\ prog[LocalId].before.inbound # prog[LocalId].given
    /\ prog[LocalId].given # InboundMessage_default

\* a round prepared after a round that left a coordinate on the stack
C14_WitnessStack ==
    /\ Running(LocalId)
    /\ prog[LocalId].calls = 0
    /\ prog[LocalId].before.alignment_stack.stack # << >>
    /\ prog[LocalId].before.state # EmptyMap

(* C15: State.get<V>(p) returns nothing when the state has no entry at p, *)
(* the stored value when the entry is of type V, and panics with a message *)
(* that names p and V when the entry is of another type: repeat and share  *)
(* then start from initial, start from the stored value, or end in the     *)
(* panic; so repeat on an i32 in one round and repeat on a String at the   *)
(* same path in the next round ends in the type-mismatch panic.            *)
C15_StateGet ==
    \A d \in Nodes :
        LET l == obs[d].last
            got == State_get(l.pre.state, l.arg.ty, l.path)
            present == l.path \in DOMAIN l.pre.state
        IN (/\ l.prim \in {"repeat", "share"}
            /\ l.at = "enter" \/ l.tag \in {"Panic", "DeserializationError"}) =>
            /\ ~present =>
                  /\ got = [tag |-> "None", value |-> NoValue, message |-> NoMessage]
                  /\ l.tag # "Panic"
                  /\ l.prim = "repeat" => l.value = l.arg
                  /\ (l.prim = "share" /\ l.tag = "Ok") => l.field.default = l.arg
            /\ (present /\ l.pre.state[l.path].ty = l.arg.ty) =>
                  /\ got = [tag |-> "Some", value |-> l.pre.state[l.path],
                            message |-> NoMessage]
                  /\ l.tag # "Panic"
                  /\ l.prim = "repeat" => l.value = l.pre.state[l.path]
                  /\ (l.prim = "share" /\ l.tag = "Ok")
                         => l.field.default = l.pre.state[l.path]
            /\ (present /\ l.pre.state[l.path].ty # l.arg.ty) =>
                  /\ got = [tag |-> "Panic", value |-> NoValue,
                            message |-> [path |-> l.path, expected |-> l.arg.ty]]
                  /\ l.tag = "Panic"
                  /\ prog[d].phase = "panicked"

\* repeat on an i32 in round 1, repeat on a String at "repeat:0" in round 2
C15_Witness ==
    /\ prog[LocalId].round = 2
    /\ prog[LocalId].phase = "panicked"
    /\ obs[LocalId].last.prim = "repeat"
    /\ obs[LocalId].last.tag = "Panic"
    /\ obs[LocalId].last.path = Path_from(PStr_r0)
    /\ obs[LocalId].last.arg.ty = TyString
    /\ obs[LocalId].last.pre.state[Path_from(PStr_r0)].ty = TyI32

\* a repeat that found a value of its type and started from it
C15_WitnessSome ==
    /\ obs[LocalId].last.prim = "repeat"
    /\ obs[LocalId].last.at = "enter"
    /\ obs[LocalId].last.arg = Val(TyI32, 0)
    /\ obs[LocalId].last.value = Val(TyI32, 1)

(* C16: the type of the value stored at a path of the state never changes, *)
(* over any rounds: a repeat or share that visits a path whose entry is of *)
(* another type than its own ends in the type-mismatch panic with the      *)
(* state as it was, and the device runs no further.                        *)
C16_TypeStable ==
    [][\A d \in Nodes :
          /\ \A p \in (DOMAIN vm[d].state) \cap (DOMAIN vm'[d].state) :
                 vm'[d].state[p].ty = vm[d].state[p].ty
          /\ LET l == obs'[d].last
             IN (/\ l # obs[d].last
                 /\ l.prim \in {"repeat", "share"}
                 /\ l.at = "enter" \/ l.tag \in {"Panic", "DeserializationError"}
                 /\ l.path \in DOMAIN vm[d].state
                 /\ vm[d].state[l.path].ty # l.arg.ty) =>
                    /\ l.tag = "Panic"
                    /\ prog'[d].phase = "panicked"
                    /\ vm'[d].state = vm[d].state
          /\ prog[d].phase = "panicked" => (vm'[d] = vm[d] /\ prog'[d] = prog[d])]_vars

\* share on an i32 in round 1, share on another type at "share:0" in round 2:
\* the panic, and the i32 still stored
C16_Witness ==
    /\ prog[LocalId].round = 2
    /\ prog[LocalId].phase = "panicked"
    /\ obs[LocalId].last.prim = "share"
    /\ obs[LocalId].last.tag = "Panic"
    /\ obs[LocalId].last.arg.ty = TyNoSer
    /\ Path_from(PStr_s0) \in DOMAIN vm[LocalId].state
    /\ vm[LocalId].state[Path_from(PStr_s0)] = Val(TyI32, 1)

\* a path visited in two rounds by a repeat of the same type
C16_WitnessSameType ==
    /\ prog[LocalId].round = 2
    /\ obs[LocalId].last.prim = "repeat"
    /\ obs[LocalId].last.at = "return"
    /\ obs[LocalId].last.path = Path_from(PStr_r0)
    /\ Path_from(PStr_r0) \in DOMAIN obs[LocalId].last.pre.state

(* C17: a.aligned_map(b, f) has the default f(a.default, b.default) and,  *)
(* as keys of its overrides, exactly the keys that the overrides of a and  *)
(* of b have in common, with f(a[k], b[k]) at each such key k: a key of    *)
(* one input alone is absent, and inputs without a common key give empty   *)
(* overrides.                                                              *)
C17_AlignedMap ==
    \A d \in Nodes :
        LET a == prog[d].a
            b == prog[d].b
            out == prog[d].out
            common == (DOMAIN a.overrides) \cap (DOMAIN b.overrides)
        IN prog[d].phase = "mapped" =>
            /\ out.default = Transform(prog[d].transform, a.default, b.default)
            /\ DOMAIN out.overrides = common
            /\ \A k \in common \cap DOMAIN out.overrides :
                   out.overrides[k]
                       = Transform(prog[d].transform, a.overrides[k], b.overrides[k])
            /\ \A k \in ((DOMAIN a.overrides) \cup (DOMAIN b.overrides)) \ common :
                   k \notin DOMAIN out.overrides
            /\ common = {} => out.overrides = EmptyMap

\* as in the tests: a with the keys 0, 1 and b with the keys 1, 2 added up
C17_Witness ==
    /\ prog[LocalId].phase = "mapped"
    /\ prog[LocalId].transform = "add"
    /\ DOMAIN prog[LocalId].a.overrides = {0, 1}
    /\ DOMAIN prog[LocalId].b.overrides = {1, 2}
    /\ prog[LocalId].a.overrides[1] = Val(TyI32, 1)
    /\ prog[LocalId].b.overrides[1] = Val(TyI32, 1)
    /\ prog[LocalId].out.overrides = MapPut(EmptyMap, 1, Val(TyI32, 2))

\* fields without overrides
C17_WitnessEmpty ==
    /\ prog[LocalId].phase = "mapped"
    /\ prog[LocalId].a.overrides = EmptyMap
    /\ prog[LocalId].b.overrides = EmptyMap
    /\ prog[LocalId].out.overrides = EmptyMap

\* fields without a common key
C17_WitnessDisjoint ==
    /\ prog[LocalId].phase = "mapped"
    /\ DOMAIN prog[LocalId].a.overrides = {1}
    /\ DOMAIN prog[LocalId].b.overrides = {2}
    /\ prog[LocalId].out.overrides = EmptyMap

(* C18: the id of the local device is never a key of the overrides of a   *)
(* field that neighboring returns or that share passes to its callback,    *)
(* whatever inbound message the VM was given, one with an entry for the    *)
(* local id included.                                                      *)
C18_LocalIdNotInOverrides ==
    \A d \in Nodes :
        (obs[d].last.prim \in {"neighboring", "share"} /\ obs[d].last.tag = "Ok")
            => vm[d].local_id \notin DOMAIN obs[d].last.field.overrides

(* C19: the counter of a parent path saturates: once the counter recorded *)
(* for a parent path is 4294967295, every further align under that parent  *)
(* receives 4294967295 again and leaves it recorded; the counter never     *)
(* wraps around and the device does not panic.                             *)
C19_CounterSaturates ==
    [][\A d \in Nodes :
          LET as == vm[d].alignment_stack
              P == Path_new(as.stack)
              n == Len(obs'[d].log)
          IN (/\ n = Len(obs[d].log) + 1
              /\ P \in DOMAIN as.trace
              /\ as.trace[P] = U32_MAX) =>
                 /\ obs'[d].log[n].parent = P
                 /\ obs'[d].log[n].counter = U32ToString(U32_MAX)
                 /\ P \in DOMAIN vm'[d].alignment_stack.trace
                 /\ vm'[d].alignment_stack.trace[P] = U32_MAX
                 /\ prog'[d].phase # "panicked"]_vars

\* two invocations under the root, both with the counter 4294967295
C19_Witness ==
    /\ Len(obs[LocalId].log) = 2
    /\ obs[LocalId].log[1].parent = << >>
    /\ obs[LocalId].log[2].parent = << >>
    /\ obs[LocalId].log[1].counter = U32ToString(U32_MAX)
    /\ obs[LocalId].log[2].counter = U32ToString(U32_MAX)
    /\ vm[LocalId].alignment_stack.trace[<< >>] = U32_MAX

(* C20: in every cycle of the engine the steps are taken in this order,   *)
(* each once: the inbound message is pulled from the network, the VM is    *)
(* prepared for the round with it, the program runs, the outbound message  *)
(* is serialized, the bytes are handed to the network, and the cycle       *)
(* returns the output of the program.  So after a cycle the VM holds the   *)
(* message pulled, the network holds the serialization of the message the  *)
(* program of this cycle built, it was handed bytes once per cycle, and    *)
(* the cycle returned what its program returned.                           *)
C20_CycleOrder ==
    LET p == prog[LocalId]
        order == <<"prepare_inbound", "set_inbound", "program", "get_outbound",
                   "prepare_outbound", "return">>
    IN /\ p.phase # "idle" => IsPrefix(p.steps, order)
       /\ (p.phase = "idle" /\ p.round >= 1) =>
              /\ p.steps = order
              /\ vm[LocalId].inbound = p.inbound
              /\ vm[LocalId].outbound.sender = LocalId
              /\ DOMAIN vm[LocalId].outbound.underlying
                     = {obs[LocalId].writes[i] : i \in 1..Len(obs[LocalId].writes)}
              /\ p.serialized_outbound = Serializer_serialize_message(vm[LocalId].outbound)
              /\ net[LocalId].bytes = p.serialized_outbound.bytes
              /\ net[LocalId].handed = p.round
              /\ p.out = [tag |-> obs[LocalId].last.tag, value |-> obs[LocalId].last.value]

\* a second cycle whose program emitted two entries under another inbound
\* message than the first has returned
C20_Witness ==
    /\ prog[LocalId].phase = "idle"
    /\ prog[LocalId].round = 2
    /\ Len(obs[LocalId].writes) = 2
    /\ net[LocalId].handed = 2
    /\ prog[LocalId].inbound = I_full
    /\ prog[LocalId].out.tag = "Ok"

(* C21: the entries of the state are never removed: no step of any round,  *)
(* prepare_new_round included, takes a path out of the state, so a path    *)
(* stored in one round is still there after a round whose program never    *)
(* visits it.                                                              *)
C21_StateOnlyGrows ==
    [][\A d \in Nodes :
          \A p \in DOMAIN vm[d].state : p \in DOMAIN vm'[d].state]_vars

\* round 1 stored a value at "repeat:0"; round 2 called neighboring alone and
\* has ended with the value still stored
C21_Witness ==
    /\ RoundEnded(LocalId)
    /\ prog[LocalId].round = 2
    /\ Len(obs[LocalId].log) >= 1
    /\ \A i \in 1..Len(obs[LocalId].log) : obs[LocalId].log[i].prim = "neighboring"
    /\ Path_from(PStr_r0) \in DOMAIN vm[LocalId].state

NewCalls(d) ==
    IF Len(obs'[d].events) > Len(obs[d].events)
          /\ SubSeq(obs'[d].events, 1, Len(obs[d].events)) = obs[d].events
    THEN SubSeq(obs'[d].events, Len(obs[d].events) + 1, Len(obs'[d].events))
    ELSE << >>

\* n + 1 as a number, 2^32 included
U32PlusOne(n) == IF n.lo = Limb - 1 THEN [hi |-> n.hi + 1, lo |-> 0]
                 ELSE [n EXCEPT !.lo = @ + 1]

\* what align, unalign and an align / unalign pair do to the alignment
\* stack, with plus(x) for the successor of the counter x
AlignUnalignEffect(d, plus(_)) ==
    LET as == vm[d].alignment_stack
        as2 == vm'[d].alignment_stack
        P == Path_new(as.stack)
        c == IF P \in DOMAIN as.trace THEN plus(as.trace[P]) ELSE U32(0)
        calls == NewCalls(d)
    IN /\ (Len(calls) = 1 /\ calls[1].op = "align") =>
              /\ as2.stack = Append(as.stack, [counter |-> c, token |-> calls[1].token])
              /\ as2.trace = MapPut(as.trace, P, c)
       /\ (Len(calls) = 1 /\ calls[1].op = "unalign") =>
              /\ Len(as.stack) >= 1
              /\ as2.stack = SubSeq(as.stack, 1, Len(as.stack) - 1)
              /\ as2.trace = as.trace
       /\ (Len(calls) = 2 /\ calls[1].op = "align" /\ calls[2].op = "unalign") =>
              /\ as2.stack = as.stack
              /\ as2.trace = MapPut(as.trace, P, c)

(* C23 as stated: align(token) under the current path P pushes (token, c)  *)
(* and records trace[P] = c, with c = trace[P] + 1 when P has a counter    *)
(* and 0 otherwise; unalign pops the top coordinate and leaves trace as it *)
(* was; after an align / unalign pair the stack is as before and the       *)
(* counter of P has advanced.                                              *)
C23_AlignUnalign ==
    [][\A d \in Nodes : AlignUnalignEffect(d, U32PlusOne)]_vars

\* the successor of a counter as the code computes it
SaturatingSucc(n) == SaturatingAdd(n, U32(1))

(* C23 amended: as stated, with c = trace[P] + 1 below 4294967295 and      *)
(* c = 4294967295 when trace[P] is 4294967295: the counter of P advances   *)
(* with every align / unalign pair until it has reached 4294967295 and     *)
(* stays there.                                                            *)
C23_AlignUnalignSaturating ==
    [][\A d \in Nodes : AlignUnalignEffect(d, SaturatingSucc)]_vars

\* inside a branch, two neighboring calls: the stack is back at the branch
\* and the counter of the branch's path has advanced to 1
C23_Witness ==
    /\ obs[LocalId].events
           = <<CallAlign(BranchToken(TRUE)), CallAlign(Str("neighboring")), CallUnalign,
               CallAlign(Str("neighboring")), CallUnalign>>
    /\ Len(vm[LocalId].alignment_stack.stack) = 1
    /\ vm[LocalId].alignment_stack.trace[Path_new(vm[LocalId].alignment_stack.stack)]
           = U32(1)
    /\ vm[LocalId].alignment_stack.trace[<< >>] = U32(0)

\* an align / unalign pair under a parent whose counter was 4294967295 already
C23_WitnessSaturated ==
    /\ Len(obs[LocalId].log) = 2
    /\ obs[LocalId].log[1].counter = U32ToString(U32_MAX)
    /\ obs[LocalId].log[2].counter = U32ToString(U32_MAX)
    /\ obs[LocalId].last.prim = "neighboring"
    /\ obs[LocalId].last.pre.alignment_stack.trace[<< >>] = U32_MAX
    /\ vm[LocalId].alignment_stack.stack = << >>

\* the keys of the claim
Key_bt0_s0 == <<"branch[", "true", "]", ":", "0", "/", "share", ":", "0">>
Key_bf0_s0 == <<"branch[", "false", "]", ":", "0", "/", "share", ":", "0">>

\* entry j of the log of device d is the first share made inside the first
\* branch(true) made at the top level
FirstShareInFirstBranchTrue(d, j) ==
    LET log == obs[d].log
        top(i) == log[i].parent = << >> /\ log[i].token = BranchToken(TRUE)
        inside(i, k) == /\ i < k
                        /\ log[k].prim = "share"
                        /\ Len(log[k].path) > Len(log[i].path)
                        /\ SubSeq(log[k].path, 1, Len(log[i].path)) = log[i].path
    IN \E i \in 1..Len(log) :
          /\ top(i)
          /\ \A h \in 1..(i - 1) : ~top(h)
          /\ inside(i, j)
          /\ \A h \in 1..(j - 1) : ~inside(i, h)

(* C24 as stated: the first share inside the first top-level branch(true)  *)
(* of a round gets the path "branch[true]:0/share:0".                      *)
C24_FirstShareInBranch ==
    \A d \in Nodes : \A j \in 1..Len(obs[d].log) :
        FirstShareInFirstBranchTrue(d, j) => obs[d].log[j].key = Key_bt0_s0

(* C24 amended: an invocation made inside a callback of branch, repeat or  *)
(* share gets a path that extends the path of the enclosing primitive; the *)
(* share that is the first invocation inside the branch(true) that is the  *)
(* first invocation of the round gets "branch[true]:0/share:0", and with   *)
(* branch(false) "branch[false]:0/share:0"; where two devices running the  *)
(* same program take a branch differently, the paths and the keys of their *)
(* invocations inside it differ.                                           *)
C24_NestedPaths ==
    /\ \A d \in Nodes :
          /\ \A i \in 1..Len(prog[d].frames) :
                IF i = 1 THEN Len(prog[d].frames[i].path) >= 1
                ELSE /\ Len(prog[d].frames[i].path) > Len(prog[d].frames[i - 1].path)
                     /\ IsPrefix(prog[d].frames[i - 1].path, prog[d].frames[i].path)
          /\ (prog[d].frames # << >> /\ obs[d].last.at = "return"
                                      /\ obs[d].last.prim = "neighboring") =>
                /\ Len(obs[d].last.path) > Len(Top(d).path)
                /\ IsPrefix(Top(d).path, obs[d].last.path)
          /\ \A c \in BOOLEAN :
                (/\ Len(obs[d].events) >= 2
                 /\ obs[d].events[1] = CallAlign(BranchToken(c))
                 /\ obs[d].events[2] = CallAlign(Str("share"))) =>
                    /\ obs[d].log[2].path
                           = <<BranchToken(c) \o <<":", "0">>, <<"share", ":", "0">> >>
                    /\ obs[d].log[2].key = (IF c THEN Key_bt0_s0 ELSE Key_bf0_s0)
    /\ \A i \in 1..Len(obs[1].log) :
          (\E k \in 1..Len(obs[1].log[i].path) :
                /\ k <= Len(obs[LocalId].log[i].path)
                /\ IsBranchCoordinate(obs[1].log[i].path[k])
                /\ obs[LocalId].log[i].path[k] = OtherBranch(obs[1].log[i].path[k]))
            => /\ obs[1].log[i].path # obs[LocalId].log[i].path
               /\ obs[1].log[i].key # obs[LocalId].log[i].key

\* device LocalId has called share inside branch(true), device 1 the same
\* share inside branch(false)
C24_Witness ==
    /\ InStep
    /\ Len(obs[LocalId].log) = 2
    /\ Len(obs[1].log) = 2
    /\ obs[LocalId].log[2].prim = "share"
    /\ obs[LocalId].log[2].key = Key_bt0_s0
    /\ obs[1].log[2].key = Key_bf0_s0
    /\ Key_bt0_s0 \in DOMAIN vm[LocalId].outbound.underlying
    /\ Key_bf0_s0 \in DOMAIN vm[1].outbound.underlying

\* a neighboring inside a share inside a repeat
C24_WitnessDeep ==
    /\ Len(obs[LocalId].log) = 3
    /\ obs[LocalId].log[3].key
           = <<"repeat", ":", "0", "/", "share", ":", "0", "/", "neighboring", ":", "0">>

(* C25: State.insert<V>(p, v) succeeds whatever the state holds at p, an   *)
(* entry of another type included, and replaces it: afterwards the state   *)
(* holds v at p, get<V>(p) returns v, and every other path has the entry   *)
(* it had, or none as before.                                              *)
C25_StateInsert ==
    \A d \in Nodes :
        LET p == prog[d]
        IN /\ p.op = "insert" =>
                 /\ p.phase = "idle"
                 /\ p.path \in DOMAIN p.store
                 /\ DOMAIN p.store = DOMAIN p.before \cup {p.path}
                 /\ \A q \in DOMAIN p.store :
                        p.store[q] = (IF q = p.path THEN p.ins_value ELSE p.before[q])
                 /\ State_get(p.store, p.ins_value.ty, p.path)
                        = [tag |-> "Some", value |-> p.ins_value, message |-> NoMessage]
           /\ (p.op = "get" /\ p.inserted /\ p.path = p.ins_path
                            /\ p.ty = p.ins_value.ty) =>
                 p.got = [tag |-> "Some", value |-> p.ins_value, message |-> NoMessage]

\* insert over an entry of another type, then get of the new type
C25_Witness ==
    /\ prog[LocalId].op = "get"
    /\ prog[LocalId].path = prog[LocalId].ins_path
    /\ prog[LocalId].path \in DOMAIN prog[LocalId].before
    /\ prog[LocalId].before[prog[LocalId].path] = Val(TyI32, 20)
    /\ prog[LocalId].ins_value = Val(TyString, 0)
    /\ prog[LocalId].got.tag = "Some"
    /\ prog[LocalId].got.value = Val(TyString, 0)

\* as in the test: insert into an empty state, then get
C25_WitnessFresh ==
    /\ prog[LocalId].op = "get"
    /\ prog[LocalId].calls = 2
    /\ prog[LocalId].before = State_new
    /\ prog[LocalId].got.tag = "Some"
    /\ prog[LocalId].got.value = Val(TyI32, 1)

\* key has a coordinate with the counter 4294967295
HasSaturatedCounter(key) ==
    \E i \in 1..Len(Path_from(key)) :
        CoordCounter(Path_from(key)[i]) = U32ToString(U32_MAX)

\* in a step of a running round the outbound message of device d keeps its
\* sender and its entries, except the entries whose key satisfies free
OutboundKept(d, free(_)) ==
    Running(d) =>
        /\ vm'[d].outbound.sender = vm[d].local_id
        /\ vm[d].outbound.sender = vm[d].local_id
        /\ \A k \in DOMAIN vm[d].outbound.underlying :
              /\ k \in DOMAIN vm'[d].outbound.underlying
              /\ free(k) \/ vm'[d].outbound.underlying[k] = vm[d].outbound.underlying[k]

NoKey(key) == FALSE

(* C26 as stated: between prepare_new_round and the end of the round no    *)
(* step removes an entry of the outbound message or changes the bytes of   *)
(* an entry, and the sender stays the local id of the VM.                  *)
C26_OutboundMonotonic ==
    [][\A d \in Nodes : OutboundKept(d, NoKey)]_vars

(* C26 amended: no step of a round removes an entry of the outbound        *)
(* message, the sender stays the local id, and the bytes of an entry never *)
(* change unless its key holds the counter 4294967295, at which the        *)
(* counters saturate: the invocations under a parent path after the        *)
(* 2^32-th share one key, and each of them that emits replaces the bytes.  *)
C26_OutboundMonotonicBelowSaturation ==
    [][\A d \in Nodes : OutboundKept(d, HasSaturatedCounter)]_vars

\* a share has emitted after a neighboring, whose entry is still there
C26_Witness ==
    /\ Running(LocalId)
    /\ Len(obs[LocalId].writes) = 2
    /\ obs[LocalId].last.prim = "share"
    /\ obs[LocalId].last.at = "return"
    /\ PStr_n0 \in DOMAIN obs[LocalId].last.pre.outbound.underlying
    /\ DOMAIN vm[LocalId].outbound.underlying = {PStr_n0, <<"share", ":", "1">>}
    /\ vm[LocalId].outbound.underlying[PStr_n0]
           = obs[LocalId].last.pre.outbound.underlying[PStr_n0]

\* two neighboring calls at the saturated counter: the second replaced the
\* bytes of the first
C26_WitnessSaturated ==
    /\ Len(obs[LocalId].writes) = 2
    /\ obs[LocalId].writes[1] = obs[LocalId].writes[2]
    /\ HasSaturatedCounter(obs[LocalId].writes[1])
    /\ obs[LocalId].last.pre.outbound.underlying[obs[LocalId].writes[1]] = <<"0">>
    /\ vm[LocalId].outbound.underlying[obs[LocalId].writes[1]] = <<"1">>

(* C27: get_at_path(p) of an inbound message is the map whose keys are     *)
(* the ids whose tree has an entry at p, each with the bytes its tree      *)
(* holds at p; an id whose tree has no entry at p is not a key, and the    *)
(* keys are the set that devices_at_path(p) returns.                       *)
C27_GetAtPath ==
    \A d \in Nodes :
        LET p == prog[d]
            having == {id \in DOMAIN p.inbound : p.path \in DOMAIN p.inbound[id]}
        IN /\ p.asked =>
                 /\ DOMAIN p.got = having
                 /\ \A id \in having \cap DOMAIN p.got : p.got[id] = p.inbound[id][p.path]
                 /\ \A id \in (DOMAIN p.inbound) \ having : id \notin DOMAIN p.got
           /\ p.listed => p.devices = having
           /\ (p.asked /\ p.listed) => DOMAIN p.got = p.devices

\* three devices in the message: one with an entry at the path, one with an
\* entry at a longer path with the same last coordinate, one with an empty tree
C27_Witness ==
    /\ prog[LocalId].asked
    /\ prog[LocalId].listed
    /\ prog[LocalId].path = Path_from(PStr_n0)
    /\ DOMAIN prog[LocalId].inbound = Devices
    /\ DOMAIN prog[LocalId].inbound[1] = {Path_from(PStr_n0)}
    /\ DOMAIN prog[LocalId].inbound[2] = {Path_from(PStr_s0_n0)}
    /\ prog[LocalId].inbound[0] = ValueTree_empty
    /\ prog[LocalId].got = MapPut(EmptyMap, 1, <<"1">>)
    /\ prog[LocalId].devices = {1}

\* a path that no tree holds
C27_WitnessNone ==
    /\ prog[LocalId].asked
    /\ prog[LocalId].path = Path_from(PStr_s0)
    /\ DOMAIN prog[LocalId].inbound = {1, 2}
    /\ prog[LocalId].got = EmptyMap

(* C28: every path that the alignment stack gives an invocation is not     *)
(* empty and is got back from its textual form: Path::from(p.to_string())  *)
(* = p; two such paths, of one device or of two, with the same textual     *)
(* form are equal, so distinct paths never share a key of an outbound      *)
(* message; and the tree a device is handed for a neighbor has, for every  *)
(* key of the neighbor's message, the path the neighbor emitted at, with   *)
(* the bytes of that key.                                                  *)
C28_PathRoundTrip ==
    /\ \A d \in Nodes : \A i \in 1..Len(obs[d].log) :
          /\ Len(obs[d].log[i].path) >= 1
          /\ obs[d].log[i].key = Path_to_string(obs[d].log[i].path)
          /\ Path_from(Path_to_string(obs[d].log[i].path)) = obs[d].log[i].path
    /\ \A d, e \in Nodes : \A i \in 1..Len(obs[d].log) : \A j \in 1..Len(obs[e].log) :
          Path_to_string(obs[d].log[i].path) = Path_to_string(obs[e].log[j].path)
              => obs[d].log[i].path = obs[e].log[j].path
    /\ \A d \in Nodes : \A e \in DOMAIN vm[d].inbound :
          /\ Cardinality(DOMAIN vm[d].inbound[e])
                 = Cardinality(DOMAIN net[e].msg.underlying)
          /\ \A k \in DOMAIN net[e].msg.underlying :
                /\ Path_from(k) \in DOMAIN vm[d].inbound[e]
                /\ \E j \in 1..Len(net[e].log) :
                      net[e].log[j].path = Path_from(k) /\ net[e].log[j].key = k
          /\ \A p \in DOMAIN vm[d].inbound[e] :
                /\ Path_to_string(p) \in DOMAIN net[e].msg.underlying
                /\ Path_to_string(p) \in DOMAIN net[e].msg.underlying
                       => vm[d].inbound[e][p] = net[e].msg.underlying[Path_to_string(p)]

\* device 1 was handed the entry that device LocalId emitted inside a branch
\* and has been aligned at the same path
C28_Witness ==
    /\ Running(1)
    /\ LocalId \in DOMAIN vm[1].inbound
    /\ DOMAIN vm[1].inbound[LocalId] = {<< <<"branch[", "false", "]", ":", "0">>,
                                           <<"neighboring", ":", "0">> >>}
    /\ DOMAIN net[LocalId].msg.underlying = {PStr_bf_n0}
    /\ Len(obs[1].log) = 2
    /\ obs[1].log[2].key = PStr_bf_n0
    /\ obs[1].last.field.overrides = MapPut(EmptyMap, LocalId, Val(TyI32, 0))

\* device d is untouched by the step
Untouched(d) ==
    /\ vm'[d] = vm[d]
    /\ prog'[d] = prog[d]
    /\ obs'[d] = obs[d]
    /\ net'[d] = net[d]

(* C29: VMs whose rounds interleave share nothing: a step of the round of  *)
(* one device leaves the state, the alignment stack, the outbound message  *)
(* and everything else of every other device as it was; the inbound        *)
(* message of a device is what the network held for it when its round      *)
(* started and does not change during the round, whatever the others emit  *)
(* or send meanwhile; and what neighboring and share give a device is      *)
(* computed from its own VM alone.                                         *)
C29_ShareNothing ==
    [][\A d \in Nodes :
          /\ ~Untouched(d) => \A e \in Nodes \ {d} : Untouched(e)
          /\ IF prog[d].phase = "idle" /\ prog'[d].phase = "running"
             THEN vm'[d].inbound = Network_prepare_inbound(d)
             ELSE vm'[d].inbound = vm[d].inbound
          /\ (obs'[d].last # obs[d].last /\ obs'[d].last.prim = "neighboring") =>
                /\ vm'[d] = VM_neighboring(vm[d], obs'[d].last.arg).vm
                /\ obs'[d].last.field = VM_neighboring(vm[d], obs'[d].last.arg).field
          /\ (obs'[d].last # obs[d].last /\ obs'[d].last.prim = "share"
                                         /\ obs'[d].last.at = "enter") =>
                /\ vm'[d] = VM_share_enter(vm[d], obs'[d].last.arg).vm
                /\ obs'[d].last.field = VM_share_enter(vm[d], obs'[d].last.arg).field]_vars

\* device 1 started its round before device LocalId sent its message: both
\* have emitted at neighboring:0, device LocalId has ended its round, and the
\* field of device 1 is without device LocalId
C29_Witness ==
    /\ Running(1)
    /\ RoundEnded(LocalId)
    /\ net[LocalId].sent
    /\ PStr_n0 \in DOMAIN net[LocalId].msg.underlying
    /\ vm[1].inbound = InboundMessage_default
    /\ obs[1].last.prim = "neighboring"
    /\ obs[1].last.path = Path_from(PStr_n0)
    /\ obs[1].last.field.overrides = EmptyMap
    /\ DOMAIN vm[1].outbound.underlying = {PStr_n0}
    /\ DOMAIN vm[LocalId].outbound.underlying = {PStr_n0}

\* both devices are inside a callback at the same time, each with its own
\* alignment stack and state
C29_WitnessBoth ==
    /\ Running(LocalId)
    /\ Running(1)
    /\ Len(prog[LocalId].frames) = 1
    /\ Len(prog[1].frames) = 1
    /\ prog[LocalId].frames[1].kind = "share"
    /\ prog[1].frames[1].kind = "branch"
    /\ vm[LocalId].alignment_stack # vm[1].alignment_stack

\* the aligns of the round of device d made under parent path pp before the i-th
AlignsBefore(d, pp, i) == {j \in 1..(i - 1) : obs[d].log[j].parent = pp}

(* C30: the sibling counter is kept per parent path and shared by all      *)
(* tokens: below saturation, the align of a round that follows n aligns    *)
(* made under the same parent path in that round receives counter n,       *)
(* whatever its token and theirs; so in neighboring(a); repeat(..);        *)
(* neighboring(b) the second neighboring is emitted at neighboring:2.      *)
C30_CounterSharedByTokens ==
    \A d \in Nodes : \A i \in 1..Len(obs[d].log) :
        LET n == Cardinality(AlignsBefore(d, obs[d].log[i].parent, i))
        IN (n \div Limb < Limb) => obs[d].log[i].counter = U32ToString(U32(n))

\* neighboring; repeat; neighboring at the root: the second neighboring is
\* emitted at neighboring:2
C30_Witness ==
    /\ Len(obs[LocalId].log) = 3
    /\ obs[LocalId].log[1].key = PStr_n0
    /\ obs[LocalId].log[2].key = <<"repeat", ":", "1">>
    /\ obs[LocalId].log[3].key = <<"neighboring", ":", "2">>
    /\ obs[LocalId].last.prim = "neighboring"
    /\ obs[LocalId].last.tag = "Ok"
    /\ <<"neighboring", ":", "2">> \in DOMAIN vm[LocalId].outbound.underlying
    /\ <<"neighboring", ":", "1">> \notin DOMAIN vm[LocalId].outbound.underlying

\* the same inside a callback: share { branch { }; neighboring } emits the
\* neighboring at share:0/neighboring:1
C30_WitnessNested ==
    /\ Len(obs[LocalId].log) = 3
    /\ obs[LocalId].log[1].key = PStr_s0
    /\ obs[LocalId].log[2].parent = Path_from(PStr_s0)
    /\ obs[LocalId].log[2].prim = "branch"
    /\ obs[LocalId].log[3].key = <<"share", ":", "0", "/", "neighboring", ":", "1">>
    /\ obs[LocalId].last.tag = "Ok"

\* the invocations of repeat and share in the log of the round of device d
StateUsers(d) == {i \in 1..Len(obs[d].log) : obs[d].log[i].prim \in {"repeat", "share"}}

\* what a repeat or share at path with this initial value starts from when
\* the state is the one the round started with
FromStart(d, initial, path) ==
    LET got == State_get(prog[d].start, initial.ty, path)
    IN IF got.tag = "Some" THEN got.value ELSE initial

(* C31: within one round no two invocations of repeat or share use the     *)
(* same state path, and the previous value a repeat or share starts from   *)
(* is the one the state held at that path when the round was prepared      *)
(* (left by an earlier round) or, without one, initial: never a value      *)
(* stored by another invocation of the same round.                         *)
C31_StatePathUsedOnce ==
    \A d \in Nodes :
        /\ \A i, j \in StateUsers(d) : i # j => obs[d].log[i].path # obs[d].log[j].path
        /\ LET l == obs[d].last
           IN /\ (l.prim = "repeat" /\ l.at = "enter" /\ l.tag = "Ok")
                    => l.value = FromStart(d, l.arg, l.path)
              /\ (l.prim = "share" /\ l.at = "enter" /\ l.tag = "Ok")
                    => l.field.default = FromStart(d, l.arg, l.path)

\* second round: repeat at repeat:0 started from the 1 the first round left
\* and stored its result there; the repeat after it is at repeat:1 and starts
\* from initial
C31_Witness ==
    /\ prog[LocalId].round = 2
    /\ Len(obs[LocalId].log) = 2
    /\ obs[LocalId].log[1].key = PStr_r0
    /\ obs[LocalId].log[1].prim = "repeat"
    /\ Path_from(PStr_r0) \in DOMAIN prog[LocalId].start
    /\ Path_from(PStr_r0) \in DOMAIN vm[LocalId].state
    /\ obs[LocalId].last.prim = "repeat"
    /\ obs[LocalId].last.at = "enter"
    /\ obs[LocalId].last.path = Path_from(<<"repeat", ":", "1">>)
    /\ obs[LocalId].last.value = Val(TyI32, 0)
    /\ prog[LocalId].frames # << >>

\* a share nested in a repeat, after a neighboring that failed to decode and
\* left its coordinate on the stack
C31_WitnessNested ==
    /\ obs[LocalId].erred
    /\ Len(obs[LocalId].log) = 3
    /\ obs[LocalId].log[1].prim = "neighboring"
    /\ obs[LocalId].log[2].prim = "repeat"
    /\ obs[LocalId].last.prim = "share"
    /\ obs[LocalId].last.at = "enter"
    /\ Len(obs[LocalId].last.path) = 3

\* device d invokes a primitive in this step
Invokes(d, prim) ==
    /\ Len(obs'[d].log) = Len(obs[d].log) + 1
    /\ obs'[d].last.prim = prim

(* C32: when share fails with a DeserializationError the evolution         *)
(* callback has not been invoked (no callback is entered, share has        *)
(* returned) and the persistent state and the outbound message are exactly *)
(* as they were before the call.                                           *)
C32_ShareDeserializationError ==
    [][\A d \in Nodes :
          (Invokes(d, "share") /\ obs'[d].last.tag = "DeserializationError") =>
              /\ obs'[d].last.at = "return"
              /\ prog'[d].frames = prog[d].frames
              /\ vm'[d].state = vm[d].state
              /\ vm'[d].outbound = vm[d].outbound]_vars

\* second round: after a neighboring that emitted at neighboring:0, share at
\* share:1 finds the string of neighbor 2 and fails; the state holds what the
\* first round stored and the outbound message the entry of the neighboring
C32_Witness ==
    /\ prog[LocalId].round = 2
    /\ obs[LocalId].last.prim = "share"
    /\ obs[LocalId].last.tag = "DeserializationError"
    /\ obs[LocalId].last.path = Path_from(PStr_s1)
    /\ prog[LocalId].frames = << >>
    /\ vm[LocalId].state # State_new
    /\ vm[LocalId].state = obs[LocalId].last.pre.state
    /\ DOMAIN vm[LocalId].outbound.underlying = {PStr_n0}
    /\ Path_from(PStr_s1) \notin DOMAIN vm[LocalId].state

\* the round before this one of device d invoked share at path
SharedBefore(d, path) ==
    \E i \in 1..Len(net[d].log) :
        net[d].log[i].prim = "share" /\ net[d].log[i].path = path

(* C33: when share fails with a SerializationError, the value the callback *)
(* returned is stored in the state at the path of the share, and the       *)
(* outbound message is as before the call, without an entry at that path;  *)
(* a share of the next round at that path starts from the stored value,    *)
(* not from initial.                                                       *)
C33_ShareSerializationError ==
    \A d \in Nodes :
        LET l == obs[d].last
        IN /\ (l.prim = "share" /\ l.tag = "SerializationError") =>
                 /\ l.at = "return"
                 /\ l.path \in DOMAIN vm[d].state
                 /\ vm[d].state[l.path] = l.arg
                 /\ Path_to_string(l.path) \notin DOMAIN vm[d].outbound.underlying
                 /\ vm[d].outbound = l.pre.outbound
           /\ (/\ l.prim = "share" /\ l.at = "enter"
               /\ prog[d].round = 2
               /\ SharedBefore(d, l.path)
               /\ l.path \in DOMAIN prog[d].start
               /\ prog[d].start[l.path].ty = l.arg.ty
               /\ ~Serializer_serialize(prog[d].start[l.path]).ok) =>
                 /\ l.tag = "Ok"
                 /\ l.field.default = prog[d].start[l.path]

\* share at share:0 has failed to serialize the 1 its callback returned: the
\* state holds the 1 at share:0 and the outbound message is empty
C33_Witness ==
    /\ prog[LocalId].round = 1
    /\ obs[LocalId].last.prim = "share"
    /\ obs[LocalId].last.tag = "SerializationError"
    /\ obs[LocalId].last.path = Path_from(PStr_s0)
    /\ vm[LocalId].state = MapPut(State_new, Path_from(PStr_s0), Val(TyNoSer, 1))
    /\ vm[LocalId].outbound.underlying = EmptyMap

\* the round after it: the message sent had no entry at share:0, and share
\* at share:0 starts from the stored 1 where initial is 0
C33_WitnessNextRound ==
    /\ prog[LocalId].round = 2
    /\ net[LocalId].sent
    /\ \A key \in DOMAIN net[LocalId].msg.underlying : key # PStr_s0
    /\ SharedBefore(LocalId, Path_from(PStr_s0))
    /\ obs[LocalId].last.prim = "share"
    /\ obs[LocalId].last.at = "enter"
    /\ obs[LocalId].last.path = Path_from(PStr_s0)
    /\ obs[LocalId].last.arg = Val(TyNoSer, 0)
    /\ obs[LocalId].last.field.default = Val(TyNoSer, 1)

(* C34: when neighboring fails, with a DeserializationError or with a      *)
(* SerializationError, the outbound message and the persistent state are   *)
(* exactly as they were before the call; a successful neighboring never    *)
(* changes the persistent state.                                           *)
C34_NeighboringFrame ==
    \A d \in Nodes :
        LET l == obs[d].last
        IN l.prim = "neighboring" =>
            /\ l.tag \in {"Ok", "DeserializationError", "SerializationError"}
            /\ vm[d].state = l.pre.state
            /\ IsErr(l.tag) => vm[d].outbound = l.pre.outbound

\* second round: the state holds what the first round stored, a neighboring
\* has emitted at neighboring:0, and the neighboring after it fails to
\* serialize its value
C34_Witness ==
    /\ prog[LocalId].round = 2
    /\ obs[LocalId].last.prim = "neighboring"
    /\ obs[LocalId].last.tag = "SerializationError"
    /\ vm[LocalId].state # State_new
    /\ DOMAIN vm[LocalId].outbound.underlying = {PStr_n0}
    /\ obs[LocalId].writes = <<PStr_n0>>

\* a neighboring that fails to decode after one that emitted inside a branch
C34_WitnessDeserialization ==
    /\ obs[LocalId].last.prim = "neighboring"
    /\ obs[LocalId].last.tag = "DeserializationError"
    /\ obs[LocalId].last.path = Path_from(PStr_n0)
    /\ obs[LocalId].last.arg = Val(TyI32, 0)
    /\ vm[LocalId].state # State_new

\* a neighboring that succeeds on a VM whose state is not empty
C34_WitnessOk ==
    /\ obs[LocalId].last.prim = "neighboring"
    /\ obs[LocalId].last.tag = "Ok"
    /\ vm[LocalId].state # State_new
    /\ vm[LocalId].outbound # obs[LocalId].last.pre.outbound

\* the last step of device d was the part of neighboring or share that
\* decodes the neighbors
Decoded(d) ==
    \/ obs[d].last.prim = "neighboring"
    \/ /\ obs[d].last.prim = "share"
       /\ obs[d].last.at = "enter" \/ obs[d].last.tag \in {"DeserializationError", "Panic"}

\* the neighbors whose tree had an entry at the path of the last step of
\* device d, and those of them whose bytes do not decode as the type asked for
AlignedNeighbors(d) ==
    {id \in DOMAIN obs[d].last.pre.inbound :
        obs[d].last.path \in DOMAIN obs[d].last.pre.inbound[id]}

Undecodable(d) ==
    {id \in AlignedNeighbors(d) :
        ~Serializer_deserialize(obs[d].last.arg.ty,
                                obs[d].last.pre.inbound[id][obs[d].last.path]).ok}

(* C35 as stated: whenever the bytes of at least one neighbor at the       *)
(* current path fail to deserialize, neighboring and share return          *)
(* DeserializationError and produce no field.                              *)
C35_AllOrNothing ==
    \A d \in Nodes :
        (Decoded(d) /\ Undecodable(d) # {}) =>
            /\ obs[d].last.tag = "DeserializationError"
            /\ obs[d].last.field = NoField

(* C35 amended: whenever the bytes of at least one neighbor at the current *)
(* path fail to deserialize, no field is produced, even when the bytes of  *)
(* every other neighbor decode; neighboring returns DeserializationError,  *)
(* and so does share unless the state holds a value of another type at the *)
(* path, in which case share has panicked in state.get before it looked at *)
(* the inbound message.                                                    *)
C35_AllOrNothingUnlessPanic ==
    \A d \in Nodes :
        (Decoded(d) /\ Undecodable(d) # {}) =>
            /\ obs[d].last.field = NoField
            /\ obs[d].last.tag \in {"DeserializationError", "Panic"}
            /\ obs[d].last.tag = "Panic" =>
                  /\ obs[d].last.prim = "share"
                  /\ obs[d].last.path \in DOMAIN obs[d].last.pre.state
                  /\ obs[d].last.pre.state[obs[d].last.path].ty # obs[d].last.arg.ty

\* share on i32 at share:0: the number of neighbor 1 decodes, the string of
\* neighbor 2 does not, and share has returned DeserializationError
C35_Witness ==
    /\ obs[LocalId].last.prim = "share"
    /\ obs[LocalId].last.arg = Val(TyI32, 0)
    /\ obs[LocalId].last.path = Path_from(PStr_s0)
    /\ AlignedNeighbors(LocalId) = {1, 2}
    /\ Undecodable(LocalId) = {2}
    /\ obs[LocalId].last.tag = "DeserializationError"
    /\ obs[LocalId].last.field = NoField

\* the same for neighboring at neighboring:0
C35_WitnessNeighboring ==
    /\ obs[LocalId].last.prim = "neighboring"
    /\ obs[LocalId].last.path = Path_from(PStr_n0)
    /\ AlignedNeighbors(LocalId) = {1, 2}
    /\ Undecodable(LocalId) = {2}
    /\ obs[LocalId].last.tag = "DeserializationError"

\* share on i32 at share:0 where the round before stored a value of another
\* type: the string of neighbor 2 does not decode, and share has panicked
C35_WitnessPanic ==
    /\ obs[LocalId].last.prim = "share"
    /\ obs[LocalId].last.tag = "Panic"
    /\ Undecodable(LocalId) = {2}
    /\ prog[LocalId].phase = "panicked"

\* the aligns among the alignment calls, less the unaligns
Unbalance(events) ==
    Cardinality({i \in 1..Len(events) : events[i].op = "align"})
        - Cardinality({i \in 1..Len(events) : events[i].op # "align"})

(* C36: however the round before ended, with every primitive returned Ok   *)
(* or abandoned after a primitive returned an error, a round starts after  *)
(* prepare_new_round with an empty alignment stack and no counters, so a   *)
(* round that makes the alignment calls the round before made (the same    *)
(* primitives, nested the same way) has every invocation at the path it    *)
(* had in the round before, and repeat and share look for their state      *)
(* there.                                                                  *)
C36_RoundsStartAfresh ==
    \A d \in Nodes :
        /\ (Running(d) /\ obs[d].events = << >>)
              => vm[d].alignment_stack = AlignmentStack_new
        /\ (prog[d].round = 2 /\ IsPrefix(obs[d].events, prog[d].flow)) =>
              /\ Len(obs[d].log) <= Len(net[d].log)
              /\ \A i \in 1..Len(obs[d].log) : obs[d].log[i].path = net[d].log[i].path

\* the first round stored at repeat:0 and was abandoned after a neighboring
\* returned DeserializationError, its coordinate left on the stack; the
\* second round makes the same calls and has its repeat at repeat:0 again,
\* where it finds the stored value
C36_Witness ==
    /\ prog[LocalId].round = 2
    /\ Unbalance(prog[LocalId].flow) = 1
    /\ Len(prog[LocalId].flow) = 3
    /\ IsPrefix(obs[LocalId].events, prog[LocalId].flow)
    /\ obs[LocalId].last.prim = "repeat"
    /\ obs[LocalId].last.at = "enter"
    /\ obs[LocalId].last.path = Path_from(PStr_r0)
    /\ obs[LocalId].last.value = Val(TyI32, 1)
    /\ obs[LocalId].last.arg = Val(TyI32, 0)

\* a round just prepared after a round that ended with every primitive
\* returned Ok and its counters advanced
C36_WitnessAfterOk ==
    /\ prog[LocalId].round = 2
    /\ Running(LocalId)
    /\ obs[LocalId].events = << >>
    /\ Len(prog[LocalId].flow) = 4
    /\ Unbalance(prog[LocalId].flow) = 0
    /\ vm[LocalId].alignment_stack = AlignmentStack_new

\* the keys at which a neighboring or a share of the current round of device d
\* has completed with Ok
Completed(d) == {obs[d].writes[i] : i \in 1..Len(obs[d].writes)}

\* the keys of the invocations of neighboring and share of the round
Invoked(d) ==
    {obs[d].log[i].key : i \in {j \in 1..Len(obs[d].log) :
                                   obs[d].log[j].prim \in {"neighboring", "share"}}}

(* C37: the outbound message of a round has an entry at path p if and only *)
(* if a neighboring or share at p has completed with Ok in that round,     *)
(* whatever the rounds before emitted; the message handed to the network   *)
(* at the end of the round is that one, so a neighbor's field at p has an  *)
(* override for a device exactly when the last round of that device        *)
(* completed a neighboring or share at p: a device that no longer runs     *)
(* that program point is gone from the field once its next message is      *)
(* delivered.                                                              *)
C37_OutboundOfThisRound ==
    \A d \in Nodes :
        /\ DOMAIN vm[d].outbound.underlying = Completed(d)
        /\ Completed(d) \subseteq Invoked(d)
        /\ RoundEnded(d) => net[d].msg = vm[d].outbound
        /\ LET l == obs[d].last
           IN (/\ Running(d)
               /\ l.tag = "Ok"
               /\ \/ l.prim = "neighboring"
                  \/ l.prim = "share" /\ l.at = "enter") =>
                 DOMAIN l.field.overrides
                     = {e \in Nodes \ {d} :
                           RoundEnded(e) /\ Path_to_string(l.path) \in Completed(e)}

\* device LocalId ran share at share:0 in its first round (its state holds
\* the result) and not in its second; device 1, started after that, runs
\* share at share:0 and its field has no override
C37_Witness ==
    /\ prog[LocalId].round = 2
    /\ RoundEnded(LocalId)
    /\ DOMAIN vm[LocalId].state = {Path_from(PStr_s0)}
    /\ net[LocalId].msg.underlying = EmptyMap
    /\ obs[1].last.prim = "share"
    /\ obs[1].last.at = "enter"
    /\ obs[1].last.tag = "Ok"
    /\ obs[1].last.path = Path_from(PStr_s0)
    /\ obs[1].last.field.overrides = EmptyMap

\* device 1 runs share at share:0 after the first round of device LocalId,
\* which ran it too, and its field has the override of device LocalId
C37_WitnessPresent ==
    /\ prog[LocalId].round = 1
    /\ RoundEnded(LocalId)
    /\ DOMAIN vm[LocalId].state = {Path_from(PStr_s0)}
    /\ obs[1].last.prim = "share"
    /\ obs[1].last.at = "enter"
    /\ obs[1].last.path = Path_from(PStr_s0)
    /\ DOMAIN obs[1].last.field.overrides = {LocalId}

\* a round of device LocalId that ended after a neighboring that emitted and a
\* neighboring that failed to serialize: the message has the first entry only
C37_WitnessFailed ==
    /\ RoundEnded(LocalId)
    /\ obs[LocalId].erred
    /\ Cardinality(Invoked(LocalId)) = 2
    /\ DOMAIN net[LocalId].msg.underlying = {PStr_n0}

(* C38: Engine::cycle hands the outbound message to the network in every   *)
(* cycle, also in a cycle whose program returned an error value: when such *)
(* a cycle has returned, the network has been handed a message once for    *)
(* each cycle so far, and the one it holds is the serialization of the     *)
(* outbound message of this cycle, with every entry the program appended   *)
(* before the primitive that failed.                                       *)
C38_SendsAfterError ==
    LET p == prog[LocalId]
    IN (p.phase = "idle" /\ p.round >= 1 /\ IsErr(p.out.tag)) =>
          /\ obs[LocalId].erred
          /\ "prepare_outbound" \in {p.steps[i] : i \in 1..Len(p.steps)}
          /\ net[LocalId].sent
          /\ net[LocalId].handed = p.round
          /\ net[LocalId].msg = vm[LocalId].outbound
          /\ net[LocalId].bytes = Serializer_serialize_message(vm[LocalId].outbound).bytes
          /\ \A i \in 1..Len(obs[LocalId].writes) :
                 \E key \in DOMAIN net[LocalId].msg.underlying : key = obs[LocalId].writes[i]

\* the second cycle has returned the SerializationError of the second
\* neighboring of its program; the first had emitted at neighboring:0 and
\* the network holds that entry
C38_Witness ==
    /\ prog[LocalId].phase = "idle"
    /\ prog[LocalId].round = 2
    /\ prog[LocalId].out.tag = "SerializationError"
    /\ obs[LocalId].writes = <<PStr_n0>>
    /\ net[LocalId].handed = 2
    /\ DOMAIN net[LocalId].msg.underlying = {PStr_n0}

\* a cycle that returned the DeserializationError of its first primitive:
\* the message handed over is empty
C38_WitnessEmpty ==
    /\ prog[LocalId].phase = "idle"
    /\ prog[LocalId].round = 1
    /\ prog[LocalId].out.tag = "DeserializationError"
    /\ net[LocalId].handed = 1
    /\ net[LocalId].msg = OutboundMessage_empty(LocalId)

====
